---- MODULE Spec2Model ----
(***************************************************************************)
(* Model of the WebSocket daemon of grblHAL/Plugin_networking              *)
(* (websocketd.c v2.7): session pool, inbound/outbound ring buffers, the   *)
(* incremental frame parser websocket_msg_parse, the packet queueing of    *)
(* websocket_recv / websocket_stream_handler, ping bookkeeping and the     *)
(* poll entry point.                                                       *)
(*                                                                         *)
(* Bytes are integers 0..255.  C pointers into a transport buffer are an   *)
(* offset into the byte sequence of that buffer; heap buffers are records  *)
(* with their allocated size, so that a write outside the allocation and a *)
(* read of a byte never written are visible.                               *)
(***************************************************************************)
EXTENDS Integers, Sequences, FiniteSets, TLC

VARIABLES
    clients,        \* clients[WEBUI_MAX_CLIENTS]: the session pool
    streambuffers,  \* the shared character stream: owner, rxbuf, txbuf
    ws_server,      \* listener state: link_lost, and whether ws_server.pcb is listening
    hal,            \* the firmware's active stream (hal.stream.type)
    pcbs,           \* transport connections: callbacks, bytes in flight, bytes written
    obs,            \* what the collaborators saw: handler calls, real-time bytes, bytes read
    now,            \* xTaskGetTickCount() in units of configTICK_RATE_HZ
    ptr,            \* static uint32_t ptr of http_recv
    halted,         \* "no", "loop" (a handler never returns) or "fault" (NULL dereference)
    op              \* the entry point that ran last

vars == <<clients, streambuffers, ws_server, hal, pcbs, obs, now, ptr, halted, op>>

-----------------------------------------------------------------------------
(* Bounds of the model *)

RX_BUFFER_SIZE == 4     \* size of streambuffers.rxbuf.data (grbl core; scaled down)
TX_BUFFER_SIZE == 4     \* size of streambuffers.txbuf.data (grbl core; scaled down)
MaxTime == 20           \* last tick of the clock
MAX_HTTP_HEADER_SIZE == 4   \* initial size of the handshake buffer (512; scaled down)

(* Program constants *)

WEBUI_MAX_CLIENTS == 4
PING_MAX == 3           \* pingCount > 3 closes the session
PING_INTERVAL == 3      \* 3 * configTICK_RATE_HZ
SNDBUF_MIN == 4         \* tcp_sndbuf(pcb) > 4
FRAME_NONE == 255

NULL == -1
UNINIT == 256           \* a heap byte that was never written

WsOpcode_Continuation == 0
WsOpcode_Text == 1
WsOpcode_Binary == 2
WsOpcode_Close == 8
WsOpcode_Ping == 9
WsOpcode_Pong == 10

Slots == 0 .. (WEBUI_MAX_CLIENTS - 1)
\* the connections of the transport
Conns == DOMAIN pcbs

-----------------------------------------------------------------------------
(* Byte arithmetic *)

RECURSIVE BitXor(_, _, _)
BitXor(a, b, n) ==
    IF n = 0 THEN 0
    ELSE (((a % 2) + (b % 2)) % 2) + 2 * BitXor(a \div 2, b \div 2, n - 1)

Xor(a, b) == BitXor(a, b, 8)

Min(a, b) == IF a < b THEN a ELSE b
Max(a, b) == IF a > b THEN a ELSE b

\* ws_frame_start_t: opcode in bits 0..3, rsv in bits 4..6, fin in bit 7
fs_fin(token) == token \div 128
fs_opcode(token) == token % 16
fs_set_opcode(token, opcode) == (token \div 16) * 16 + opcode

wshdr_txt == 129
wshdr_bin == 130
wshdr_ping == 137

RECURSIVE Concat(_)
Concat(ss) == IF ss = <<>> THEN <<>> ELSE Head(ss) \o Concat(Tail(ss))

IsPrefix(a, b) == Len(a) <= Len(b) /\ SubSeq(b, 1, Len(a)) = a

\* bytes [from, from + n) of a buffer, 0-based
Slice(buf, from, n) == SubSeq(buf, from + 1, from + n)

-----------------------------------------------------------------------------
(* Heap buffers: malloc, memcpy into, read from *)

\* malloc(size): a buffer of `size` bytes, none of them written yet
malloc(size) == [kind |-> "heap", cap |-> size, mem |-> [i \in 1 .. size |-> UNINIT]]

\* a NULL data pointer
NULLPTR == [kind |-> "null"]

IsNull(buf) == buf.kind = "null"

\* memcpy(buf + at, src, Len(src)); e.intact tells whether bytes stored outside
\* the allocation survive until they are read back (heap corruption otherwise)
heap_write(buf, at, src, e) ==
    LET n == Max(Len(buf.mem), at + Len(src))
    IN  [buf EXCEPT !.mem =
            [i \in 1 .. n |->
                IF i > at /\ i <= at + Len(src)
                THEN (IF i <= buf.cap \/ e.intact THEN src[i - at] ELSE e.junk)
                ELSE IF i <= Len(buf.mem) THEN buf.mem[i] ELSE UNINIT]]

\* the n bytes at buf + from as the reader sees them: a byte never written,
\* or outside what was stored, reads as whatever the heap holds there
heap_read(buf, from, n, e) ==
    [i \in 1 .. n |->
        IF from + i <= Len(buf.mem) /\ buf.mem[from + i] # UNINIT
        THEN buf.mem[from + i] ELSE e.junk]

-----------------------------------------------------------------------------
(* Session defaults *)

header0 ==
    [idx |-> 0, payload_len |-> 0, payload_rem |-> 0, rx_index |-> 0,
     frame |-> NULLPTR, mask |-> <<0, 0, 0, 0>>, masked |-> FALSE,
     complete |-> FALSE, data |-> <<>>]

packet0 == [p |-> <<>>, q |-> 0, off |-> 0]

defaultSettings ==
    [magic |-> TRUE, stream |-> FALSE, stream_connected |-> TRUE,
     state |-> "Free", ftype |-> 0, fragment_opcode |-> WsOpcode_Continuation,
     start |-> FRAME_NONE, header |-> header0, pcb |-> NULL, packet |-> packet0,
     lastSendTime |-> 0, pingCount |-> 0, http_request |-> NULLPTR,
     hdrsize |-> MAX_HTTP_HEADER_SIZE,
     payload |-> NULLPTR, collect_payload |-> FALSE,
     on_txt_frame_received |-> FALSE, on_bin_frame_received |-> FALSE]

\* static ws_sessiondata_t clients[WEBUI_MAX_CLIENTS] = {0}
zeroSession ==
    [defaultSettings EXCEPT !.magic = FALSE, !.stream_connected = FALSE,
                            !.start = 0, !.hdrsize = 0]

-----------------------------------------------------------------------------
(* Inbound and outbound ring buffers *)

BUFNEXT(index, size) == (index + 1) % size
BUFCOUNT(head, tail, size) == (head - tail + size) % size

\* protocol_enqueue_realtime_command: true for the bytes it takes for itself
RtChars == {24}
enqueue_realtime_command(c) == c \in RtChars

streamRxCount(w) ==
    BUFCOUNT(w.streambuffers.rxbuf.head, w.streambuffers.rxbuf.tail, RX_BUFFER_SIZE)

streamRxFree(w) == (RX_BUFFER_SIZE - 1) - streamRxCount(w)

streamRxFlush(w) ==
    [w EXCEPT !.streambuffers.rxbuf.tail = w.streambuffers.rxbuf.head]

streamTxFlush(w) ==
    [w EXCEPT !.streambuffers.txbuf.tail = w.streambuffers.txbuf.head]

streamTxCount(w) ==
    BUFCOUNT(w.streambuffers.txbuf.head, w.streambuffers.txbuf.tail, TX_BUFFER_SIZE)

\* the unread bytes of the inbound ring, oldest first
RxContent(w) ==
    LET rx == w.streambuffers.rxbuf
    IN  [i \in 1 .. streamRxCount(w) |-> rx.data[(rx.tail + i - 1) % RX_BUFFER_SIZE]]

ASCII_CAN == 24

\* websocketd_RxCancel with the tail left where it is
websocketd_RxCancel_keep(w) ==
    LET rx == w.streambuffers.rxbuf
    IN  [w EXCEPT !.streambuffers.rxbuf.data[rx.head] = ASCII_CAN,
                  !.streambuffers.rxbuf.head = BUFNEXT(rx.head, RX_BUFFER_SIZE)]

\* websocketd_RxCancel (hal.stream.cancel_read_buffer)
websocketd_RxCancel(w) ==
    LET rx == w.streambuffers.rxbuf
    IN  [w EXCEPT !.streambuffers.rxbuf.data[rx.head] = ASCII_CAN,
                  !.streambuffers.rxbuf.tail = rx.head,
                  !.streambuffers.rxbuf.head = BUFNEXT(rx.head, RX_BUFFER_SIZE)]

\* websocketd_RxPutC without the real-time test: every byte is buffered
websocketd_RxPutC_buffered(w, c) ==
    LET sb == w.streambuffers
        ok == /\ sb.session # NULL
              /\ w.clients[sb.session].state = "Connected"
              /\ w.hal.stream_type # "MPG"
        next_head == BUFNEXT(sb.rxbuf.head, RX_BUFFER_SIZE)
        overflow == next_head = sb.rxbuf.tail
    IN  IF ~ok THEN [w |-> w, ok |-> FALSE]
        ELSE [w |-> [w EXCEPT
                    !.streambuffers.rxbuf.overflow = IF overflow THEN TRUE ELSE @,
                    !.streambuffers.rxbuf.data[sb.rxbuf.head] = c,
                    !.streambuffers.rxbuf.head = next_head],
              ok |-> ~overflow]

\* websocketd_RxPutC: [w |-> world after, ok |-> return value]
websocketd_RxPutC(w, c) ==
    LET sb == w.streambuffers
        ok == /\ sb.session # NULL
              /\ w.clients[sb.session].state = "Connected"
              /\ w.hal.stream_type # "MPG"
    IN  IF ~ok THEN [w |-> w, ok |-> FALSE]
        ELSE IF enqueue_realtime_command(c)
        THEN [w |-> [w EXCEPT !.obs.rt = Append(@, c)], ok |-> TRUE]
        ELSE LET next_head == BUFNEXT(sb.rxbuf.head, RX_BUFFER_SIZE)
                 overflow == next_head = sb.rxbuf.tail
             IN  [w |-> [w EXCEPT
                        !.streambuffers.rxbuf.overflow = IF overflow THEN TRUE ELSE @,
                        !.streambuffers.rxbuf.data[sb.rxbuf.head] = c,
                        !.streambuffers.rxbuf.head = next_head],
                  ok |-> ~overflow]

\* streamGetC: the reader pops one byte; SERIAL_NO_DATA when tail = head
streamGetC(w) ==
    LET rx == w.streambuffers.rxbuf
    IN  IF rx.tail = rx.head THEN w
        ELSE [w EXCEPT !.obs.read = Append(@, rx.data[rx.tail]),
                       !.streambuffers.rxbuf.tail = BUFNEXT(rx.tail, RX_BUFFER_SIZE)]

\* streamPutC: the firmware writes one byte to the outbound ring; with the
\* ring full it waits in hal.stream_blocking_callback and nothing is stored
streamPutC(w, c) ==
    LET tx == w.streambuffers.txbuf
        next_head == BUFNEXT(tx.head, TX_BUFFER_SIZE)
    IN  IF tx.tail = next_head THEN w
        ELSE [w EXCEPT !.streambuffers.txbuf.data[tx.head] = c,
                       !.streambuffers.txbuf.head = next_head]

-----------------------------------------------------------------------------
(* Transport writes *)

\* tcp_write(pcb, data, len, COPY) followed by tcp_output: the bytes are queued when
\* they fit the send window, refused (ERR_MEM, which the callers ignore) otherwise
tcp_write(w, pcb, data) ==
    IF pcb = NULL \/ Len(data) = 0 \/ Len(data) > w.pcbs[pcb].sndbuf THEN w
    ELSE [w EXCEPT !.pcbs[pcb].out = Append(@, data)]

\* websocket_send_frame(session, data, size, is_binary) for session slot c,
\* NULL for a null handle: [w |-> world after, ok |-> return value].  The
\* length handed to tcp_write is (u16_t)(size + hdr_len)
websocket_send_frame(w, c, data, size, is_binary, e) ==
    LET hdr_len == IF size >= 126 THEN 4 ELSE 2
        token == IF is_binary THEN wshdr_bin ELSE wshdr_txt
        hdr == IF size >= 126 THEN <<token, 126, (size \div 256) % 256, size % 256>>
               ELSE <<token, size>>
        len == (size + hdr_len) % 65536
        msg == [i \in 1 .. len |-> IF i <= hdr_len THEN hdr[i] ELSE data[i - hdr_len]]
    IN  IF c = NULL THEN [w |-> w, ok |-> FALSE]
        ELSE IF ~w.clients[c].magic THEN [w |-> w, ok |-> FALSE]
        ELSE IF ~e.malloc_ok THEN [w |-> w, ok |-> FALSE]
        ELSE [w |-> [tcp_write(w, w.clients[c].pcb, msg) EXCEPT
                        !.clients[c].lastSendTime = w.now],
              ok |-> TRUE]

-----------------------------------------------------------------------------
(* websocket_msg_parse *)

\* header_byte with the 16 bit length read low byte first
header_byte_low_first(h, b) ==
    LET d == Append(h.data, b)
        idx == h.idx + 1
        len7 == IF idx = 2 THEN b % 128 ELSE h.payload_len
        masked == IF idx = 2 THEN (b \div 128) = 1 ELSE h.masked
        complete == idx >= 6 /\ idx = (IF len7 = 126 THEN 8 ELSE 6)
    IN  IF complete
        THEN LET plen == IF len7 = 126 THEN d[4] * 256 + d[3] ELSE len7
                 mask == IF len7 = 126 THEN SubSeq(d, 5, 8) ELSE SubSeq(d, 3, 6)
             IN  [h EXCEPT !.data = d, !.idx = idx, !.masked = masked,
                           !.complete = TRUE, !.payload_len = plen,
                           !.payload_rem = plen, !.mask = mask]
        ELSE [h EXCEPT !.data = d, !.idx = idx, !.masked = masked,
                       !.payload_len = len7]

\* one pass of the header loop: data[idx++] = byte, decode at idx 2 and idx >= 6
header_byte(h, b) ==
    LET d == Append(h.data, b)
        idx == h.idx + 1
        len7 == IF idx = 2 THEN b % 128 ELSE h.payload_len
        masked == IF idx = 2 THEN (b \div 128) = 1 ELSE h.masked
        complete == idx >= 6 /\ idx = (IF len7 = 126 THEN 8 ELSE 6)
    IN  IF complete
        THEN LET plen == IF len7 = 126 THEN d[3] * 256 + d[4] ELSE len7
                 mask == IF len7 = 126 THEN SubSeq(d, 5, 8) ELSE SubSeq(d, 3, 6)
             IN  [h EXCEPT !.data = d, !.idx = idx, !.masked = masked,
                           !.complete = TRUE, !.payload_len = plen,
                           !.payload_rem = plen, !.mask = mask]
        ELSE [h EXCEPT !.data = d, !.idx = idx, !.masked = masked,
                       !.payload_len = len7]

\* while(!header.complete && plen) over the bytes at buf + off
RECURSIVE collect_header(_, _, _, _)
collect_header(h, buf, off, plen) ==
    IF h.complete \/ plen = 0 THEN [h |-> h, off |-> off, plen |-> plen]
    ELSE collect_header(header_byte(h, buf[off + 1]), buf, off + 1, plen - 1)

\* collect_msg_frame(header, payload, len); src are the len bytes at payload
collect_msg_frame(h, src, e) ==
    LET len == Len(src)
        h1 == IF h.payload_rem > len /\ h.payload_rem = h.payload_len
              THEN [h EXCEPT !.frame =
                       IF e.malloc_ok
                       THEN heap_write(malloc(h.payload_len + h.idx), 0, h.data, e)
                       ELSE NULLPTR]
              ELSE h
        rem == h1.payload_rem - len
    IN  [h1 EXCEPT !.payload_rem = rem,
                   !.frame = IF IsNull(@) THEN @
                             ELSE heap_write(@, h1.idx + h1.payload_len - rem - 1, src, e)]

\* the bytes tcp_write reads at a pointer into the transport buffer; past the
\* end of the buffer it reads whatever memory holds
pbuf_read(buf, off, n, e) ==
    [i \in 1 .. n |-> IF off + i <= Len(buf) THEN buf[off + i] ELSE e.junk]

\* *p++ ^= mask[i++ % 4] over a payload
unmask(data, mask) == [j \in 1 .. Len(data) |-> Xor(data[j], mask[((j - 1) % 4) + 1])]

\* the push loop of character-stream mode: [w, n] with n the bytes accepted
RECURSIVE rx_push(_, _, _, _, _)
rx_push(w, src, k, i, mask) ==
    IF k > Len(src) THEN [w |-> w, n |-> k - 1]
    ELSE LET r == websocketd_RxPutC(w, Xor(src[k], mask[(i % 4) + 1]))
         IN  IF ~r.ok THEN [w |-> r.w, n |-> k - 1]
             ELSE rx_push(r.w, src, k + 1, i + 1, mask)

\* The parser works on m = [w, c, buf, off, plen, done, e]: the world, the session
\* slot, the transport buffer, the offset of `payload` in it, the bytes left of
\* this call, frame_done, and the outcomes of malloc and of undefined behaviour.
Sess(m) == m.w.clients[m.c]

\* case WsOpcode_Continuation: no fragmented message is open
case_continuation(m) ==
    [m EXCEPT !.w.clients[m.c].fragment_opcode = WsOpcode_Continuation]

\* the frame handler is called with the payload
on_received(w, c, is_binary, data) ==
    [w EXCEPT !.obs.frames = Append(@, [session |-> c, binary |-> is_binary, data |-> data])]

\* collect_payload branch: gather the frame in session->payload, then unmask
\* it and hand it to the frame handler
data_collect(m, is_binary, local_len, done0) ==
    LET s == Sess(m)
        h == s.header
        src == Slice(m.buf, m.off, local_len)
        gather == h.payload_rem # 0 /\ ~done0
        rem == IF gather THEN h.payload_rem - local_len ELSE h.payload_rem
        done == IF gather THEN rem = 0 ELSE done0
        inplace == s.payload.kind = "pbuf"
        heap1 == IF gather /\ s.payload.kind = "heap"
                 THEN LET b1 == heap_write(s.payload, h.payload_len - h.payload_rem, src, m.e)
                      IN  IF done /\ ~is_binary
                          THEN heap_write(b1, h.payload_len, <<0>>, m.e) ELSE b1
                 ELSE s.payload
        raw == IF inplace THEN Slice(m.buf, s.payload.at, h.payload_len)
               ELSE heap_read(heap1, 0, h.payload_len, m.e)
        registered == IF is_binary THEN s.on_bin_frame_received ELSE s.on_txt_frame_received
    IN  IF gather /\ IsNull(s.payload)
        THEN [m EXCEPT !.w.halted = "fault"]    \* memcpy to a NULL session->payload
        ELSE IF ~done
        THEN [m EXCEPT !.plen = 0,
                       !.w.clients[m.c].payload = heap1,
                       !.w.clients[m.c].header.payload_rem = rem]
        ELSE IF ~registered
        THEN [m EXCEPT !.w.halted = "fault"]    \* call through a NULL handler
        ELSE LET w1 == on_received(m.w, m.c, is_binary, unmask(raw, h.mask))
             IN  [m EXCEPT !.w = [w1 EXCEPT !.clients[m.c].payload =
                                                IF inplace THEN NULLPTR ELSE heap1,
                                            !.clients[m.c].header.payload_rem = rem],
                           !.plen = IF gather \/ inplace THEN 0 ELSE @,
                           !.done = TRUE]

\* character-stream branch: unmask and push into the inbound ring on the go
data_stream(m, local_len) ==
    LET h == Sess(m).header
        w0 == [m.w EXCEPT !.streambuffers.rxbuf.overflow = FALSE]
        r == rx_push(w0, Slice(m.buf, m.off, local_len), 1, h.rx_index, h.mask)
        i == h.rx_index + r.n
        rem == h.payload_len - i
    IN  [m EXCEPT !.w = [r.w EXCEPT !.clients[m.c].header.rx_index = i,
                                    !.clients[m.c].header.payload_rem = rem],
                  !.plen = @ - r.n,
                  !.done = (rem = 0)]

\* no consumer: sink the payload
data_sink(m, local_len) ==
    LET rem == Sess(m).header.payload_rem - local_len
    IN  [m EXCEPT !.w.clients[m.c].header.payload_rem = rem,
                  !.plen = 0,
                  !.done = (rem = 0)]

\* case WsOpcode_Binary / WsOpcode_Text; fs is the start byte with the opcode
\* of a Continuation already resolved
case_data(m, fs, is_binary) ==
    LET s0 == Sess(m)
        h == s0.header
        handled == /\ h.payload_rem = h.payload_len
                   /\ \/ (s0.on_txt_frame_received /\ ~is_binary)
                      \/ (s0.on_bin_frame_received /\ is_binary)
        inplace == handled /\ m.plen >= h.payload_len
        \* malloc(payload_len + is_binary ? 0 : 1) is malloc((payload_len + is_binary) ? 0 : 1)
        size == IF h.payload_len + (IF is_binary THEN 1 ELSE 0) # 0 THEN 0 ELSE 1
        s1 == [s0 EXCEPT
                !.fragment_opcode = IF fs_fin(fs) = 1 THEN WsOpcode_Continuation ELSE @,
                !.collect_payload =
                    IF ~handled THEN @
                    ELSE IF inplace THEN TRUE
                    ELSE h.payload_len > 0 /\ m.e.malloc_ok,
                !.payload =
                    IF ~handled THEN @
                    ELSE IF inplace THEN [kind |-> "pbuf", at |-> m.off]
                    ELSE IF h.payload_len > 0
                    THEN (IF m.e.malloc_ok THEN malloc(size) ELSE NULLPTR)
                    ELSE @]
        local_len == Min(h.payload_rem, m.plen)
        s2 == [s1 EXCEPT !.start = IF h.payload_rem > m.plen THEN fs ELSE FRAME_NONE]
        m1 == [m EXCEPT !.w.clients[m.c] = s1, !.done = inplace]
        m2 == [m EXCEPT !.w.clients[m.c] = s2, !.done = inplace]
    IN  IF h.payload_rem = 0 THEN m1
        ELSE IF s2.collect_payload THEN data_collect(m2, is_binary, local_len, inplace)
        ELSE IF m.c = m.w.streambuffers.session /\ s2.stream_connected
        THEN data_stream(m2, local_len)
        ELSE data_sink(m2, local_len)

\* the payload handed to tcp_write by the Close and Ping cases: header.frame
\* when collect_msg_frame returned true, the pointer into the buffer otherwise
echo_bytes(h, buf, off, e) ==
    IF IsNull(h.frame) THEN pbuf_read(buf, off, h.payload_len, e)
    ELSE heap_read(h.frame, 0, h.payload_len, e)

\* case WsOpcode_Close
case_close(m) ==
    LET s == Sess(m)
        h == s.header
    IN  IF m.plen >= h.payload_rem
        THEN LET h1 == collect_msg_frame(h, Slice(m.buf, m.off, h.payload_rem), m.e)
                 w1 == tcp_write(m.w, s.pcb, echo_bytes(h1, m.buf, m.off, m.e))
             IN  [m EXCEPT !.w = [w1 EXCEPT !.clients[m.c].header = h1,
                                            !.clients[m.c].state = "Closing"],
                           !.plen = @ - h.payload_rem,
                           !.done = TRUE]
        ELSE [m EXCEPT !.w.clients[m.c].header =
                            collect_msg_frame(h, Slice(m.buf, m.off, m.plen), m.e),
                       !.plen = 0]

\* case WsOpcode_Ping; fs is the start byte of the frame
case_ping(m, fs) ==
    LET s == Sess(m)
        h == s.header
        token == fs_set_opcode(fs, WsOpcode_Pong)
    IN  IF m.plen >= h.payload_rem
        THEN IF s.state # "Closing"
             THEN LET h1 == collect_msg_frame(h, Slice(m.buf, m.off, h.payload_rem), m.e)
                      \* payload[0] = fs.token
                      h2 == IF IsNull(h1.frame) THEN h1
                            ELSE [h1 EXCEPT !.frame = heap_write(@, 0, <<token>>, m.e)]
                      buf1 == IF IsNull(h1.frame) /\ m.off < Len(m.buf)
                              THEN [m.buf EXCEPT ![m.off + 1] = token] ELSE m.buf
                      w1 == tcp_write(m.w, s.pcb, echo_bytes(h2, buf1, m.off, m.e))
                  IN  [m EXCEPT !.w = [w1 EXCEPT !.clients[m.c].header = h2],
                                !.buf = buf1,
                                !.plen = @ - h.payload_rem,
                                !.done = TRUE]
             ELSE [m EXCEPT !.done = TRUE]
        ELSE [m EXCEPT !.w.clients[m.c].header =
                            collect_msg_frame(h, Slice(m.buf, m.off, m.plen), m.e),
                       !.plen = 0]

\* case WsOpcode_Pong taking one ping off the count for each Pong
case_pong_one_less(m) ==
    LET h == Sess(m).header
    IN  IF m.plen >= h.payload_rem
        THEN [m EXCEPT !.w.clients[m.c].pingCount = Max(0, @ - 1),
                       !.plen = @ - h.payload_rem,
                       !.done = TRUE]
        ELSE [m EXCEPT !.w.clients[m.c].header.payload_rem = @ - m.plen,
                       !.plen = 0]

\* case WsOpcode_Pong
case_pong(m) ==
    LET h == Sess(m).header
    IN  IF m.plen >= h.payload_rem
        THEN [m EXCEPT !.w.clients[m.c].pingCount = 0,
                       !.plen = @ - h.payload_rem,
                       !.done = TRUE]
        ELSE [m EXCEPT !.w.clients[m.c].header.payload_rem = @ - m.plen,
                       !.plen = 0]

\* default: unsupported opcode, ditch the payload
case_default(m) ==
    LET h == Sess(m).header
    IN  IF m.plen >= h.payload_rem
        THEN [m EXCEPT !.plen = @ - h.payload_rem, !.done = TRUE]
        ELSE [m EXCEPT !.w.clients[m.c].header.payload_rem = @ - m.plen,
                       !.plen = 0]

\* if(frame_done): free session->payload and header.frame, clear the header.
\* session->payload may still point into the transport buffer here (a handled
\* frame without payload); free() of it is undefined.
frame_cleanup(m) ==
    LET s == Sess(m)
        badfree == s.payload.kind = "pbuf"
    IN  [m EXCEPT !.w.clients[m.c].payload = NULLPTR,
                  !.w.clients[m.c].collect_payload =
                        IF IsNull(s.payload) THEN @ ELSE FALSE,
                  !.w.clients[m.c].header = header0,
                  !.w.halted = IF badfree /\ ~m.e.intact THEN "fault" ELSE @]

\* switch(fs.opcode) with the fragment bookkeeping in front of it
process_frame(m) ==
    LET s == Sess(m)
        fs0 == s.header.data[1]
        frag == IF fs_fin(fs0) = 0 /\ fs_opcode(fs0) # WsOpcode_Continuation
                THEN fs_opcode(fs0) ELSE s.fragment_opcode
        fs == IF fs_opcode(fs0) = WsOpcode_Continuation
              THEN fs_set_opcode(fs0, frag) ELSE fs0
        m1 == [m EXCEPT !.w.clients[m.c].fragment_opcode = frag]
        opcode == fs_opcode(fs)
        Cleanup(m2) == IF m2.done /\ m2.w.halted = "no" THEN frame_cleanup(m2) ELSE m2
    IN  Cleanup(CASE opcode = WsOpcode_Continuation -> case_continuation(m1)
                  [] opcode = WsOpcode_Binary -> case_data(m1, fs, TRUE)
                  [] opcode = WsOpcode_Text -> case_data(m1, fs, FALSE)
                  [] opcode = WsOpcode_Close -> case_close(m1)
                  [] opcode = WsOpcode_Ping -> case_ping(m1, fs)
                  [] opcode = WsOpcode_Pong -> case_pong(m1)
                  [] OTHER -> case_default(m1))

\* websocket_msg_parse(session, payload, len) with payload = buf + off:
\* [w, buf, consumed] where consumed is the return value len - plen
websocket_msg_parse(w, c, buf, off, len, e) ==
    LET Result(m1) == [w |-> m1.w, buf |-> m1.buf, consumed |-> len - m1.plen]
        Process(m0) ==
            Result(IF m0.w.clients[c].header.complete
                        /\ (m0.plen > 0 \/ m0.w.clients[c].header.payload_rem = 0)
                   THEN process_frame(m0) ELSE m0)
        Collected(hc) ==
            Process([w |-> [w EXCEPT !.clients[c].header = hc.h], c |-> c, buf |-> buf,
                     off |-> hc.off, plen |-> hc.plen, done |-> FALSE, e |-> e])
    IN  Collected(collect_header(w.clients[c].header, buf, off, len))

\* while(q) of websocket_recv and websocket_stream_handler over the chain p,
\* from byte off of its q-th buffer: [w, p, q, off, taken]; q = 0 is q == NULL
RECURSIVE parse_chain(_, _, _, _, _, _, _)
parse_chain(w, c, p, q, off, taken, e) ==
    LET len == Len(p[q]) - off
        \* r is what websocket_msg_parse returns
        Step(r) ==
            LET p1 == [p EXCEPT ![q] = r.buf]
                off1 == off + r.consumed
                taken1 == taken + r.consumed
            IN  IF r.w.halted # "no" \/ r.w.streambuffers.rxbuf.overflow
                THEN [w |-> r.w, p |-> p1, q |-> q, off |-> off1, taken |-> taken1]
                ELSE IF len - r.consumed = 0
                THEN IF q < Len(p) THEN parse_chain(r.w, c, p1, q + 1, 0, taken1, e)
                     ELSE [w |-> r.w, p |-> p1, q |-> 0, off |-> 0, taken |-> taken1]
                ELSE IF r.consumed = 0 /\ r.w = w /\ r.buf = p[q]
                THEN \* nothing consumed, nothing changed, len # 0: the loop never ends
                     [w |-> [w EXCEPT !.halted = "loop"], p |-> p, q |-> q, off |-> off,
                      taken |-> taken]
                ELSE parse_chain(r.w, c, p1, q, off1, taken1, e)
    IN  Step(websocket_msg_parse(w, c, p[q], off, len, e))

-----------------------------------------------------------------------------
(* Session teardown *)

\* streamClose: switch the I/O stream back to default
streamClose(w, c) ==
    IF ~w.clients[c].stream THEN w
    ELSE streamTxFlush(streamRxFlush(
            [w EXCEPT !.clients[c].stream = FALSE,
                      !.streambuffers.session = NULL,
                      !.hal.stream_type = "Serial"]))

\* websocket_state_free: invalidate the session and free what it holds
websocket_state_free(w, c) ==
    [w EXCEPT !.clients[c].magic = FALSE,
              !.clients[c].packet = packet0,
              !.clients[c].http_request = NULLPTR,
              !.clients[c].hdrsize =
                    IF IsNull(w.clients[c].http_request) THEN @ ELSE MAX_HTTP_HEADER_SIZE,
              !.clients[c].collect_payload =
                    IF IsNull(w.clients[c].payload) THEN @ ELSE FALSE,
              !.clients[c].payload = NULLPTR,
              !.clients[c].header.frame = NULLPTR]

\* websocket_unlink_session
websocket_unlink_session(w, c) ==
    LET w1 == [w EXCEPT !.clients[c].magic = FALSE, !.clients[c].state = "Free"]
        w2 == streamClose(websocket_state_free(w1, c), c)
    IN  [w2 EXCEPT !.obs.events = Append(@, <<"disconnect", c>>)]

\* tcp_arg(pcb, NULL), tcp_recv(pcb, NULL), ... and tcp_close(pcb)
tcp_detach_close(w, pcb) ==
    IF pcb = NULL THEN w
    ELSE [w EXCEPT !.pcbs[pcb].arg = NULL, !.pcbs[pcb].recv = "none",
                   !.pcbs[pcb].state = "closed"]

\* websocket_close_conn(session, pcb)
websocket_close_conn(w, c, pcb) ==
    tcp_detach_close(websocket_unlink_session([w EXCEPT !.clients[c].pcb = NULL], c), pcb)

\* websocket_err: the transport has dropped the connection of session c
websocket_err(w, c) ==
    websocket_unlink_session([w EXCEPT !.clients[c].pcb = NULL], c)

\* tcp_arg(pcb, NULL), tcp_recv(pcb, NULL), ... and tcp_abort(pcb)
tcp_detach_abort(w, pcb) ==
    [w EXCEPT !.pcbs[pcb].arg = NULL, !.pcbs[pcb].recv = "none",
              !.pcbs[pcb].state = "aborted"]

\* one pass of the do-while of websocketd_stop for clients[idx]
stop_client(w, idx) ==
    LET pcb == w.clients[idx].pcb
    IN  websocket_unlink_session(
            IF pcb = NULL THEN w
            ELSE [tcp_detach_abort(w, pcb) EXCEPT !.clients[idx].pcb = NULL], idx)

\* websocketd_stop: idx from WEBUI_MAX_CLIENTS - 1 down to 0
RECURSIVE stop_from(_, _)
stop_from(w, idx) ==
    IF idx = 0 THEN stop_client(w, idx) ELSE stop_from(stop_client(w, idx), idx - 1)

\* websocketd_stop, with tcp_close(ws_server.pcb) at its end
websocketd_stop(w) ==
    [stop_from(w, WEBUI_MAX_CLIENTS - 1) EXCEPT !.ws_server.listening = FALSE]

-----------------------------------------------------------------------------
(* Polling: pending input, outbound stream, ping *)

\* streamTxGetC popping the newest byte first
TxContent_newest(w, n) ==
    LET tx == w.streambuffers.txbuf
    IN  [i \in 1 .. n |-> tx.data[(tx.head + TX_BUFFER_SIZE - i) % TX_BUFFER_SIZE]]

\* the bytes streamTxGetC pops, oldest first
TxContent(w, n) ==
    LET tx == w.streambuffers.txbuf
    IN  [i \in 1 .. n |-> tx.data[(tx.tail + i - 1) % TX_BUFFER_SIZE]]

\* websocket_stream_handler
websocket_stream_handler(w, c, e) ==
    LET pk == w.clients[c].packet
        \* 2. Process output stream
        Output(w1) ==
            LET pcb == w1.clients[c].pcb
                sndbuf == w1.pcbs[pcb].sndbuf
                count == streamTxCount(w1)
                len == Min(count, sndbuf - SNDBUF_MIN)
                hdr == IF len < 126 THEN <<w1.clients[c].ftype, len>>
                       ELSE <<w1.clients[c].ftype, 126, (len \div 256) % 256, len % 256>>
            IN  IF w1.halted # "no" THEN w1
                ELSE IF count = 0 THEN w1
                ELSE IF pcb = NULL THEN [w1 EXCEPT !.halted = "fault"]   \* tcp_sndbuf(NULL)
                ELSE IF sndbuf > SNDBUF_MIN
                THEN \* the batch is popped from the ring, then written; tcp_write
                     \* copies it and returns ERR_MEM, which is ignored, when it
                     \* has no memory or no free place in the send queue
                     [(IF e.malloc_ok THEN tcp_write(w1, pcb, hdr \o TxContent(w1, len)) ELSE w1)
                        EXCEPT
                            !.streambuffers.txbuf.tail = (@ + len) % TX_BUFFER_SIZE,
                            !.clients[c].lastSendTime = w.now]
                ELSE w1
        \* 1. Process pending input packet; r is where the while(q) loop ends
        Pending(r) ==
            LET pcb == r.w.clients[c].pcb
            IN  IF r.w.halted # "no" THEN r.w
                ELSE [r.w EXCEPT
                        !.pcbs = IF pcb = NULL THEN @
                                 ELSE [@ EXCEPT ![pcb].recved = @ + r.taken],
                        !.clients[c].packet =
                                IF r.q = 0 THEN packet0
                                ELSE [p |-> r.p, q |-> r.q, off |-> r.off]]
    IN  Output(IF pk.p = <<>> THEN w
               ELSE Pending(parse_chain(w, c, pk.p, pk.q, pk.off, 0, e)))

\* websocket_ping: a ping every 3 seconds without outgoing traffic
websocket_ping(w, c) ==
    LET s == w.clients[c]
    IN  IF s.pingCount > PING_MAX
        THEN [w EXCEPT !.clients[c].state = "Closing"]
        ELSE IF s.state = "Closing" \/ (w.now - s.lastSendTime) <= PING_INTERVAL
        THEN w
        ELSE IF s.pcb = NULL THEN [w EXCEPT !.halted = "fault"]     \* tcp_sndbuf(NULL)
        ELSE IF w.pcbs[s.pcb].sndbuf > SNDBUF_MIN
        THEN [tcp_write(w, s.pcb, <<wshdr_ping, 2, 72, 105>>) EXCEPT
                    !.clients[c].lastSendTime = w.now,
                    !.clients[c].pingCount = @ + 1]
        ELSE w

\* one pass of the do-while of websocketd_poll for clients[idx]
poll_client(w, idx, e) ==
    IF w.clients[idx].state = "Connected"
    THEN LET Ping(w1) == IF w1.halted # "no" THEN w1 ELSE websocket_ping(w1, idx)
         IN  Ping(IF w.clients[idx].stream
                  THEN websocket_stream_handler(w, idx, e) ELSE w)
    ELSE IF w.clients[idx].state = "Closing"
    THEN websocket_close_conn(w, idx, w.clients[idx].pcb)
    ELSE w

\* websocketd_poll: idx from WEBUI_MAX_CLIENTS - 1 down to 0
RECURSIVE poll_from(_, _, _)
poll_from(w, idx, e) ==
    LET Rest(w1) == IF idx = 0 \/ w1.halted # "no" THEN w1 ELSE poll_from(w1, idx - 1, e)
    IN  Rest(poll_client(w, idx, e))

websocketd_poll(w, e) == poll_from(w, WEBUI_MAX_CLIENTS - 1, e)

\* websocket_recv with a packet (err == ERR_OK, p != NULL)
websocket_recv(w, pcb, p, e) ==
    LET c == w.pcbs[pcb].arg
        \* r is where the while(q) loop ends
        Taken(r) ==
            LET spcb == r.w.clients[c].pcb
                Recved(wr) ==
                    IF r.q = 0 THEN websocket_stream_handler(wr, c, e)
                    ELSE [wr EXCEPT !.clients[c].packet =
                                        [p |-> r.p, q |-> r.q, off |-> r.off]]
            IN  IF r.w.halted # "no" THEN r.w
                ELSE Recved(IF spcb = NULL THEN r.w
                            ELSE [r.w EXCEPT !.pcbs[spcb].recved = @ + r.taken])
    IN  IF w.clients[c].packet.p # <<>> THEN w    \* a packet is pending: p is not taken
        ELSE Taken(parse_chain(w, c, p, 1, 0, 0, e))

\* websocket_recv with err != ERR_OK or p == NULL: the peer has closed
websocket_recv_null(w, pcb) == websocket_close_conn(w, w.pcbs[pcb].arg, pcb)

-----------------------------------------------------------------------------
(* Accept and handshake.  The upgrade request is a sequence of header lines: *)
(* the key line, a protocol line with or without "arduino", any other line,  *)
(* and the blank line that ends the request.                                 *)

H_OTHER == 300
H_KEY == 301        \* "Sec-WebSocket-Key: ..." CRLF
H_PROT == 302       \* "Sec-WebSocket-Protocol: ..." CRLF without arduino
H_ARDUINO == 303    \* "Sec-WebSocket-Protocol: ..." CRLF naming arduino
H_END == 304        \* CRLF CRLF
HTTP_101 == 101
HTTP_400 == 400
HTTP_500 == 500
\* the sub-protocol named in the response: the first candidate offered,
\* "arduino", or the one the application's policy returned
P_FIRST == 310
P_ARDUINO == 311
P_POLICY == 312

\* first Free slot from the top, NULL when there is none
RECURSIVE free_slot(_, _)
free_slot(w, idx) ==
    IF w.clients[idx].state = "Free" THEN idx
    ELSE IF idx = 0 THEN NULL ELSE free_slot(w, idx - 1)

\* websocketd_accept taking slot 0 over when no slot is Free
websocketd_accept_reclaim(w, pcb) ==
    LET free == free_slot(w, WEBUI_MAX_CLIENTS - 1)
        idx == IF free = NULL THEN 0 ELSE free
        w1 == streamClose([w EXCEPT !.clients[idx] =
                              [defaultSettings EXCEPT !.state = "Connecting"]], idx)
    IN  [w1 EXCEPT !.clients[idx].pcb = pcb,
                   !.clients[idx].ftype = wshdr_txt,
                   !.pcbs[pcb].state = "open",
                   !.pcbs[pcb].arg = idx,
                   !.pcbs[pcb].recv = "http"]

\* websocketd_accept
websocketd_accept(w, pcb) ==
    LET idx == free_slot(w, WEBUI_MAX_CLIENTS - 1)
        w1 == streamClose([w EXCEPT !.clients[idx] =
                              [defaultSettings EXCEPT !.state = "Connecting"]], idx)
    IN  IF idx = NULL
        THEN \* ERR_CONN (busy) or ERR_ABRT (link was lost): the stack drops the connection
             [w EXCEPT !.pcbs[pcb].state = "refused"]
        ELSE [w1 EXCEPT !.clients[idx].pcb = pcb,
                        !.clients[idx].ftype = wshdr_txt,
                        !.pcbs[pcb].state = "open",
                        !.pcbs[pcb].arg = idx,
                        !.pcbs[pcb].recv = "http"]

\* websocketd_notify_link_status
websocketd_notify_link_status(w, up) ==
    IF up THEN w ELSE [w EXCEPT !.ws_server.link_lost = TRUE]

\* http_write_error leaving the session's state alone
http_write_error_no_closing(w, c, status) == tcp_write(w, w.clients[c].pcb, <<status>>)

\* http_write_error
http_write_error(w, c, status) ==
    [tcp_write(w, w.clients[c].pcb, <<status>>) EXCEPT !.clients[c].state = "Closing"]

\* websocket_claim_stream binding the stream although a WebSocket session has it
websocket_claim_stream_again(w, c) ==
    LET s == w.clients[c]
    IN  IF ~s.magic \/ ~s.stream_connected THEN w
        ELSE [w EXCEPT !.hal.stream_type = "WebSocket",
                       !.clients[c].stream = TRUE,
                       !.streambuffers.session = c]

\* websocket_claim_stream; stream_connect makes the WebSocket stream the active
\* one unless another stream (MPG) holds the input
websocket_claim_stream(w, c) ==
    LET s == w.clients[c]
    IN  IF ~s.magic \/ w.hal.stream_type = "WebSocket" \/ ~s.stream_connected THEN w
        ELSE IF w.hal.stream_type = "Serial"
        THEN [w EXCEPT !.hal.stream_type = "WebSocket",
                       !.clients[c].stream = TRUE,
                       !.streambuffers.session = c]
        ELSE w

\* websocket_register_frame_handler storing the handler whatever the handle
websocket_register_frame_handler_unchecked(w, c, handler, binary) ==
    IF c = NULL THEN [w |-> w, ok |-> FALSE]
    ELSE IF binary
    THEN [w |-> [w EXCEPT !.clients[c].on_bin_frame_received = handler], ok |-> TRUE]
    ELSE [w |-> [w EXCEPT !.clients[c].on_txt_frame_received = handler], ok |-> TRUE]

\* websocket_register_frame_handler; c is the handle, NULL for a null handle:
\* [w |-> world after, ok |-> return value]
websocket_register_frame_handler(w, c, handler, binary) ==
    IF c = NULL THEN [w |-> w, ok |-> FALSE]
    ELSE IF ~w.clients[c].magic THEN [w |-> w, ok |-> FALSE]
    ELSE IF binary
    THEN [w |-> [w EXCEPT !.clients[c].on_bin_frame_received = handler], ok |-> TRUE]
    ELSE [w |-> [w EXCEPT !.clients[c].on_txt_frame_received = handler], ok |-> TRUE]

\* websocket_set_stream_flags: [w |-> world after, ok |-> return value]
websocket_set_stream_flags(w, c, connected) ==
    IF c = NULL THEN [w |-> w, ok |-> FALSE]
    ELSE IF ~w.clients[c].magic THEN [w |-> w, ok |-> FALSE]
    ELSE [w |-> [w EXCEPT !.clients[c].stream_connected = connected], ok |-> TRUE]

\* websocket.on_client_connect as the application installs it: cb tells which
\* frame handlers it registers and the stream flags it sets
on_client_connect(w, c, cb) ==
    LET w1 == [w EXCEPT !.obs.events = Append(@, <<"connect", c>>)]
        w2 == IF cb.txt THEN websocket_register_frame_handler(w1, c, TRUE, FALSE).w ELSE w1
        w3 == IF cb.bin THEN websocket_register_frame_handler(w2, c, TRUE, TRUE).w ELSE w2
    IN  websocket_set_stream_flags(w3, c, cb.connected).w

\* the copy loop of http_recv over a packet of one buffer: at its top the
\* buffer is grown by tot_len - len + 1 when ptr has reached hdrsize - 1 (also
\* in the pass that ends the loop), then request[ptr++] = byte; k - 1 bytes of
\* p are copied so far.  failed: realloc returned NULL
RECURSIVE http_copy(_, _, _, _, _, _)
http_copy(buf, hdrsize, at, p, k, e) ==
    LET grow == at = hdrsize - 1
        size1 == IF grow THEN hdrsize + k ELSE hdrsize
        buf1 == IF grow THEN [buf EXCEPT !.cap = size1] ELSE buf
    IN  IF grow /\ ~e.malloc_ok
        THEN [buf |-> NULLPTR, hdrsize |-> size1, ptr |-> at, failed |-> TRUE]
        ELSE IF k > Len(p)
        THEN [buf |-> buf1, hdrsize |-> size1, ptr |-> at, failed |-> FALSE]
        ELSE http_copy(heap_write(buf1, at, <<p[k]>>, e), size1, at + 1, p, k + 1, e)

Has(seq, x) == \E i \in 1 .. Len(seq) : seq[i] = x

\* the sub-protocol negotiation of http_recv with the arduino candidate looked
\* for before the application's policy is asked
protocol_select_arduino(req, sel, e) ==
    IF ~(Has(req, H_PROT) \/ Has(req, H_ARDUINO)) \/ ~e.malloc_ok
    THEN [name |-> <<>>, binary |-> FALSE]
    ELSE IF Has(req, H_ARDUINO) THEN [name |-> <<P_ARDUINO>>, binary |-> TRUE]
    ELSE IF sel # "none" THEN [name |-> <<P_POLICY>>, binary |-> sel = "binary"]
    ELSE [name |-> <<P_FIRST>>, binary |-> FALSE]

\* the sub-protocol negotiation of http_recv: the protocol named in the
\* response (none without a protocol line or when its copy cannot be
\* allocated) and whether the frame type becomes binary
protocol_select(req, sel, e) ==
    IF ~(Has(req, H_PROT) \/ Has(req, H_ARDUINO)) \/ ~e.malloc_ok
    THEN [name |-> <<>>, binary |-> FALSE]
    ELSE IF sel # "none" THEN [name |-> <<P_POLICY>>, binary |-> sel = "binary"]
    ELSE IF Has(req, H_ARDUINO) THEN [name |-> <<P_ARDUINO>>, binary |-> TRUE]
    ELSE [name |-> <<P_FIRST>>, binary |-> FALSE]

\* http_recv with a packet (err == ERR_OK, p != NULL); sel is what
\* websocket.on_protocol_select answers: "none" (not installed or NULL),
\* "text" or "binary"
http_recv(w, pcb, p, sel, cb, e) ==
    LET c == w.pcbs[pcb].arg
        s == w.clients[c]
        first == IsNull(s.http_request)
        r == http_copy(IF first THEN malloc(s.hdrsize) ELSE s.http_request,
                       s.hdrsize, IF first THEN 0 ELSE w.ptr, p, 1, e)
        req == heap_read(r.buf, 0, r.ptr, e)
        hdr_ok == Has(req, H_END)
        protocol == protocol_select(req, sel, e)
        key == Has(req, H_KEY)
        wa == [w EXCEPT !.ptr = r.ptr,
                        !.pcbs[pcb].recved = @ + Len(p),
                        !.clients[c].http_request = heap_write(r.buf, r.ptr, <<0>>, e),
                        !.clients[c].hdrsize = r.hdrsize]
        \* the request is terminated: answer it and free the buffer
        wb == [wa EXCEPT !.clients[c].ftype = IF protocol.binary THEN wshdr_bin ELSE @,
                         !.clients[c].http_request = NULLPTR,
                         !.clients[c].hdrsize = MAX_HTTP_HEADER_SIZE]
        wok == [tcp_write(wb, s.pcb, <<HTTP_101>> \o protocol.name) EXCEPT
                    !.clients[c].state = "Connected",
                    !.clients[c].lastSendTime = w.now,
                    !.pcbs[pcb].recv = "ws"]
        wcon == LET w1 == on_client_connect(wok, c, cb)
                IN  IF w1.clients[c].stream_connected
                    THEN websocket_claim_stream(w1, c) ELSE w1
    IN  IF first /\ ~e.malloc_ok
        THEN http_write_error([w EXCEPT !.ptr = 0], c, HTTP_500)
        ELSE IF r.failed
        THEN http_write_error([w EXCEPT !.ptr = r.ptr,
                                        !.clients[c].http_request = NULLPTR,
                                        !.clients[c].hdrsize = r.hdrsize], c, HTTP_500)
        ELSE IF hdr_ok
        THEN IF key THEN wcon
             ELSE http_write_error(websocket_unlink_session(wb, c), c, HTTP_400)
        ELSE IF r.ptr > MAX_HTTP_HEADER_SIZE * 2
        THEN websocket_unlink_session(
                [http_write_error(wa, c, HTTP_400) EXCEPT
                    !.clients[c].http_request = NULLPTR,
                    !.clients[c].hdrsize = MAX_HTTP_HEADER_SIZE], c)
        ELSE wa

\* http_recv with err != ERR_OK or p == NULL: the peer has closed
http_recv_null(w, pcb) == websocket_close_conn(w, w.pcbs[pcb].arg, pcb)

-----------------------------------------------------------------------------
(* The peer: frames as a client encodes them *)

MASK == <<17, 34, 51, 68>>

\* a client frame on the wire: start byte, masked length (7 bit, or 126 and
\* 16 bit when ext), the mask, the masked payload
Frame(fin, opcode, ext, payload) ==
    <<fin * 128 + opcode>>
    \o (IF ext THEN <<128 + 126, Len(payload) \div 256, Len(payload) % 256>>
        ELSE <<128 + Len(payload)>>)
    \o MASK \o [i \in 1 .. Len(payload) |-> Xor(payload[i], MASK[((i - 1) % 4) + 1])]

World ==
    [clients |-> clients, streambuffers |-> streambuffers, ws_server |-> ws_server,
     hal |-> hal, pcbs |-> pcbs, obs |-> obs, now |-> now, ptr |-> ptr,
     halted |-> halted]

Becomes(w, name) ==
    /\ clients' = w.clients
    /\ streambuffers' = w.streambuffers
    /\ ws_server' = w.ws_server
    /\ hal' = w.hal
    /\ pcbs' = w.pcbs
    /\ obs' = w.obs
    /\ now' = w.now
    /\ ptr' = w.ptr
    /\ halted' = w.halted
    /\ op' = name

\* outcomes the code does not decide: whether malloc succeeds, whether bytes
\* stored outside an allocation survive, and what unwritten memory holds
Env ==
    {[malloc_ok |-> TRUE,  intact |-> TRUE,  junk |-> 0],
     [malloc_ok |-> FALSE, intact |-> TRUE,  junk |-> 0],
     [malloc_ok |-> TRUE,  intact |-> FALSE, junk |-> 255]}

\* what the application's on_client_connect does with a new session
Callbacks ==
    {[txt |-> FALSE, bin |-> FALSE, connected |-> TRUE],    \* character stream
     [txt |-> FALSE, bin |-> FALSE, connected |-> FALSE],   \* no consumer
     [txt |-> TRUE,  bin |-> FALSE, connected |-> FALSE],   \* text handler
     [txt |-> TRUE,  bin |-> TRUE,  connected |-> FALSE]}   \* both handlers

InitWith(conns, requests, wires, windows) ==
    /\ clients = [i \in Slots |-> zeroSession]
    /\ streambuffers =
            [session |-> NULL,
             rxbuf |-> [head |-> 0, tail |-> 0, overflow |-> FALSE,
                        data |-> [i \in 0 .. (RX_BUFFER_SIZE - 1) |-> 0]],
             txbuf |-> [head |-> 0, tail |-> 0,
                        data |-> [i \in 0 .. (TX_BUFFER_SIZE - 1) |-> 0]]]
    /\ ws_server = [link_lost |-> FALSE, listening |-> TRUE]
    /\ hal = [stream_type |-> "Serial"]
    /\ pcbs \in [conns -> {[state |-> "idle", arg |-> NULL, recv |-> "none",
                             req |-> r, reqall |-> r,
                             all |-> x, wire |-> x, fed |-> <<>>,
                             out |-> <<>>, recved |-> 0, sndbuf |-> sb] :
                                r \in requests, x \in wires, sb \in windows}]
    /\ obs = [frames |-> <<>>, rt |-> <<>>, read |-> <<>>, events |-> <<>>]
    /\ now = 0
    /\ ptr = 0
    /\ halted = "no"
    /\ op = "init"

-----------------------------------------------------------------------------
(* Actions *)

\* the transport reports a new connection
Accept(k) ==
    /\ halted = "no"
    /\ ws_server.listening
    /\ pcbs[k].state = "idle"
    /\ Becomes(websocketd_accept(World, k), "accept")

\* the transport delivers the next n bytes of the upgrade request
HttpRecv(k, n, sel, cb, e) ==
    /\ halted = "no"
    /\ pcbs[k].state = "open" /\ pcbs[k].recv = "http" /\ pcbs[k].arg # NULL
    /\ n >= 1 /\ n <= Len(pcbs[k].req)
    /\ LET w == [World EXCEPT !.pcbs[k].req = SubSeq(@, n + 1, Len(@))]
       IN  Becomes(http_recv(w, k, SubSeq(pcbs[k].req, 1, n), sel, cb, e), "http_recv")

\* the transport delivers the next n1 + n2 bytes of the peer's frames as a
\* chain of one (n2 = 0) or two buffers
Recv(k, n1, n2, e) ==
    /\ halted = "no"
    /\ pcbs[k].state = "open" /\ pcbs[k].recv = "ws" /\ pcbs[k].arg # NULL
    /\ n1 + n2 <= Len(pcbs[k].wire)
    /\ LET taken == clients[pcbs[k].arg].packet.p = <<>>
           w == [World EXCEPT !.pcbs[k].wire = SubSeq(@, n1 + n2 + 1, Len(@)),
                              !.pcbs[k].fed = IF taken
                                              THEN @ \o SubSeq(pcbs[k].wire, 1, n1 + n2)
                                              ELSE @]
           p == IF n2 = 0 THEN <<SubSeq(pcbs[k].wire, 1, n1)>>
                ELSE <<SubSeq(pcbs[k].wire, 1, n1), SubSeq(pcbs[k].wire, n1 + 1, n1 + n2)>>
       IN  Becomes(websocket_recv(w, k, p, e), "websocket_recv")

\* the driver calls websocketd_poll
Poll(e) ==
    /\ halted = "no"
    /\ Becomes(websocketd_poll(World, e), "websocketd_poll")

\* the firmware reads a byte from the active stream
GetC ==
    /\ halted = "no"
    /\ streambuffers.rxbuf.head # streambuffers.rxbuf.tail
    /\ Becomes(streamGetC(World), "streamGetC")

\* d ticks of xTaskGetTickCount pass
Tick(d) ==
    /\ halted = "no"
    /\ now + d <= MaxTime
    /\ Becomes([World EXCEPT !.now = @ + d], "tick")

\* the transport reports an error on connection k and drops it
Err(k) ==
    /\ halted = "no"
    /\ pcbs[k].state = "open" /\ pcbs[k].arg # NULL
    /\ Becomes([websocket_err(World, pcbs[k].arg) EXCEPT
                    !.pcbs[k].arg = NULL, !.pcbs[k].recv = "none",
                    !.pcbs[k].state = "aborted"], "websocket_err")

\* the transport reports that the peer of connection k has closed
RecvNull(k) ==
    /\ halted = "no"
    /\ pcbs[k].state = "open" /\ pcbs[k].arg # NULL
    /\ \/ pcbs[k].recv = "ws" /\ Becomes(websocket_recv_null(World, k), "websocket_recv_null")
       \/ pcbs[k].recv = "http" /\ Becomes(http_recv_null(World, k), "http_recv_null")

\* the firmware stops the daemon
Stop ==
    /\ halted = "no"
    /\ ws_server.listening
    /\ Becomes(websocketd_stop(World), "websocketd_stop")

\* the application registers (handler) or removes a frame handler with handle c
RegisterFrameHandler(c, handler, binary) ==
    /\ halted = "no"
    /\ Becomes(websocket_register_frame_handler(World, c, handler, binary).w,
               "websocket_register_frame_handler")

\* the application sets the stream flags with handle c
SetStreamFlags(c, connected) ==
    /\ halted = "no"
    /\ Becomes(websocket_set_stream_flags(World, c, connected).w, "websocket_set_stream_flags")

\* the network driver reports the link going up or down
NotifyLinkStatus(up) ==
    /\ halted = "no"
    /\ Becomes(websocketd_notify_link_status(World, up), "websocketd_notify_link_status")

\* the firmware cancels the line it is reading
RxCancel ==
    /\ halted = "no"
    /\ hal.stream_type = "WebSocket"
    /\ Becomes(websocketd_RxCancel(World), "websocketd_RxCancel")

\* the firmware discards its input
RxFlush ==
    /\ halted = "no"
    /\ hal.stream_type = "WebSocket"
    /\ Becomes(streamRxFlush(World), "streamRxFlush")

\* the firmware writes byte b to the active stream
PutC(b) ==
    /\ halted = "no"
    /\ hal.stream_type = "WebSocket"
    /\ streambuffers.txbuf.tail # BUFNEXT(streambuffers.txbuf.head, TX_BUFFER_SIZE)
    /\ Becomes(streamPutC(World, b), "streamPutC")

\* the application sends size bytes, all of value b, as one frame to session c
SendFrame(c, b, size, is_binary, e) ==
    /\ halted = "no"
    /\ Becomes(websocket_send_frame(World, c, [i \in 1 .. size |-> b], size, is_binary, e).w,
               "websocket_send_frame")

-----------------------------------------------------------------------------
(* What the peer sends *)

\* payload bytes: 'a' .. 'e', and 24 (CAN), a real-time command
Upgrade == <<H_KEY, H_END>>

TextAE == Frame(1, WsOpcode_Text, FALSE, <<97, 98, 99, 100, 101>>)
TextRt == Frame(1, WsOpcode_Text, FALSE, <<97, 24, 98, 99, 100>>)
TextAB == Frame(1, WsOpcode_Text, FALSE, <<97, 98>>)
TextA == Frame(1, WsOpcode_Text, FALSE, <<97>>)
TextEmpty == Frame(1, WsOpcode_Text, FALSE, <<>>)
BinaryExt == Frame(1, WsOpcode_Binary, TRUE, <<97, 98>>)
CloseEmpty == Frame(1, WsOpcode_Close, FALSE, <<>>)
CloseNormal == Frame(1, WsOpcode_Close, FALSE, <<3, 232>>)   \* status code 1000
PingXY == Frame(1, WsOpcode_Ping, FALSE, <<120, 121>>)
PongZ == Frame(1, WsOpcode_Pong, FALSE, <<122>>)
PongEmpty == Frame(1, WsOpcode_Pong, FALSE, <<>>)
Unknown3 == Frame(1, 3, FALSE, <<97, 98>>)
Fragments == Frame(0, WsOpcode_Text, FALSE, <<97>>)
             \o Frame(0, WsOpcode_Continuation, FALSE, <<98>>)
             \o Frame(1, WsOpcode_Continuation, FALSE, <<99, 100>>)

Wires ==
    {TextAE, TextRt \o PongEmpty, TextAB \o CloseEmpty, Fragments,
     TextEmpty \o TextA, PingXY \o PongZ, BinaryExt \o PongEmpty,
     Unknown3 \o TextA, CloseEmpty \o PingXY, CloseNormal}

Init == InitWith({0}, {Upgrade}, Wires, {16})

Next ==
    \/ \E k \in Conns : Accept(k)
    \/ \E k \in Conns, sel \in {"none"}, cb \in Callbacks, e \in Env :
            HttpRecv(k, Len(pcbs[k].req), sel, cb, e)
    \/ \E k \in Conns : \E n1 \in 1 .. Len(pcbs[k].wire), n2 \in 0 .. 1, e \in Env :
            Recv(k, n1, n2, e)
    \/ \E e \in Env : Poll(e)
    \/ GetC

Spec == Init /\ [][Next]_vars

-----------------------------------------------------------------------------
(* Reference reading of the peer's byte stream (RFC 6455 framing), used to  *)
(* state what the engine is expected to deliver                             *)

RefHdrLen(bytes) == IF bytes[2] % 128 = 126 THEN 8 ELSE 6

RefPayloadLen(bytes) ==
    IF bytes[2] % 128 = 126 THEN bytes[3] * 256 + bytes[4] ELSE bytes[2] % 128

\* the frames of a byte stream: start byte, header length, unmasked payload
RECURSIVE RefFrames(_)
RefFrames(bytes) ==
    IF Len(bytes) < 6 THEN <<>>
    ELSE LET hlen == RefHdrLen(bytes)
             total == hlen + RefPayloadLen(bytes)
         IN  IF Len(bytes) < total THEN <<>>
             ELSE <<[start |-> bytes[1], hlen |-> hlen,
                     payload |-> [i \in 1 .. (total - hlen) |->
                                    Xor(bytes[hlen + i], bytes[hlen - 4 + ((i - 1) % 4) + 1])]]>>
                  \o RefFrames(SubSeq(bytes, total + 1, Len(bytes)))

RefIsData(f) == fs_opcode(f.start) \in {WsOpcode_Text, WsOpcode_Binary, WsOpcode_Continuation}

\* the payload bytes of the data frames, in order, without real-time commands
RefStream(bytes) ==
    LET fr == RefFrames(bytes)
        data == Concat([i \in 1 .. Len(fr) |-> IF RefIsData(fr[i]) THEN fr[i].payload ELSE <<>>])
    IN  SelectSeq(data, LAMBDA b : b \notin RtChars)

\* the session of connection k is the one bound to the character stream
StreamMode(k) ==
    /\ pcbs[k].arg # NULL
    /\ streambuffers.session = pcbs[k].arg
    /\ ~clients[pcbs[k].arg].on_txt_frame_received
    /\ ~clients[pcbs[k].arg].on_bin_frame_received

-----------------------------------------------------------------------------
(* C1: backpressure in character-stream mode.  What the reader has popped,   *)
(* followed by what is still unread in the inbound ring, is at every moment  *)
(* a prefix of the data payload the peer sent: no byte is lost, duplicated   *)
(* or reordered, also when a push hits a full ring.                          *)
C1_Backpressure ==
    \A k \in Conns :
        StreamMode(k) =>
            IsPrefix(obs.read \o RxContent(World), RefStream(pcbs[k].all))

-----------------------------------------------------------------------------
\* the run in which allocation succeeds and no stray store does damage
Benign == [malloc_ok |-> TRUE, intact |-> TRUE, junk |-> 0]

\* connection k has finished the handshake and holds no unprocessed packet
Receiving(k) ==
    /\ halted = "no"
    /\ pcbs[k].state = "open" /\ pcbs[k].recv = "ws" /\ pcbs[k].arg # NULL
    /\ clients[pcbs[k].arg].packet.p = <<>>

\* what a run has produced for connection k whose session is c
Outcome(w, k, c) ==
    [pushed |-> w.obs.read \o RxContent(w),
     rt |-> w.obs.rt,
     frames |-> w.obs.frames,
     written |-> w.pcbs[k].out,
     state |-> w.clients[c].state,
     halted |-> w.halted]

(* C2: chunk-boundary invariance.  From any state a session can be in,      *)
(* feeding the rest of the peer's bytes as two chunks, split anywhere,      *)
(* yields the same ring pushes, handler invocations, written frames and     *)
(* session state as feeding them as one chunk.                              *)
C2_ChunkInvariance ==
    \A k \in Conns :
        Receiving(k) =>
            LET c == pcbs[k].arg
                rest == pcbs[k].wire
                whole == websocket_recv(World, k, <<rest>>, Benign)
            IN  \A m \in 1 .. (Len(rest) - 1) :
                    LET w1 == websocket_recv(World, k, <<SubSeq(rest, 1, m)>>, Benign)
                        w2 == websocket_recv(w1, k, <<SubSeq(rest, m + 1, Len(rest))>>, Benign)
                    IN  (w1.halted = "no" /\ w1.clients[c].packet.p = <<>>)
                            => Outcome(w2, k, c) = Outcome(whole, k, c)

-----------------------------------------------------------------------------
\* the offset, within the frame it lies in, of position n of a byte stream
\* (0 when position n is the first byte of a frame)
RECURSIVE RefOffset(_, _)
RefOffset(bytes, n) ==
    IF Len(bytes) < 6 \/ n < 6 THEN n
    ELSE LET total == RefHdrLen(bytes) + RefPayloadLen(bytes)
         IN  IF n < total THEN n
             ELSE RefOffset(SubSeq(bytes, total + 1, Len(bytes)), n - total)

\* the bytes of the frame at the start of a byte stream that are still to come
\* when the stream is cut before its complete frames end
RefFrameLen(bytes) ==
    IF Len(bytes) < 2 THEN 6
    ELSE IF Len(bytes) < 4 /\ bytes[2] % 128 = 126 THEN 8
    ELSE RefHdrLen(bytes) + RefPayloadLen(bytes)

\* where the parser of session c believes it is within the current frame
ParserOffset(c) ==
    LET h == clients[c].header
    IN  IF h.complete THEN h.idx + h.payload_len - h.payload_rem ELSE h.idx

\* nothing the peer sent to connection k was dropped by the receive callback
NothingDropped(k) == pcbs[k].all = pcbs[k].fed \o pcbs[k].wire

(* C3: frame synchronisation.  Whenever a session has consumed all it was    *)
(* given, its parser stands at the offset of the frame the consumed byte     *)
(* count falls in, and one parse call on what follows reports at most the    *)
(* bytes left of that frame as consumed: a finished frame has consumed       *)
(* exactly header plus payload, and no byte of a following frame is          *)
(* swallowed or taken as payload.                                            *)
C3_FrameSync ==
    \A k \in Conns :
        (Receiving(k) /\ NothingDropped(k)) =>
            LET c == pcbs[k].arg
                at == RefOffset(pcbs[k].all, Len(pcbs[k].fed))
                rest == pcbs[k].wire
                frame == SubSeq(pcbs[k].all, Len(pcbs[k].fed) - at + 1, Len(pcbs[k].all))
            IN  /\ ParserOffset(c) = at
                /\ \A n \in 1 .. Len(rest) :
                      websocket_msg_parse(World, c, SubSeq(rest, 1, n), 0, n, Benign).consumed
                          <= RefFrameLen(frame) - at

-----------------------------------------------------------------------------
\* the fragment opcode a session must remember once n bytes of a byte stream
\* are consumed, given the opcode remembered at the start of the stream; -1
\* where the frame being read is free to have set it or not yet
RECURSIVE RefFragment(_, _, _)
RefFragment(bytes, n, open) ==
    IF n = 0 \/ Len(bytes) < 6 THEN (IF n = 0 THEN open ELSE -1)
    ELSE LET total == RefHdrLen(bytes) + RefPayloadLen(bytes)
             fin == fs_fin(bytes[1])
             opcode == fs_opcode(bytes[1])
             data == opcode \in {WsOpcode_Text, WsOpcode_Binary, WsOpcode_Continuation}
             after == IF ~data THEN open
                      ELSE IF fin = 1 THEN WsOpcode_Continuation
                      ELSE IF opcode # WsOpcode_Continuation THEN opcode
                      ELSE open
         IN  IF n >= total
             THEN RefFragment(SubSeq(bytes, total + 1, Len(bytes)), n - total, after)
             ELSE IF open # WsOpcode_Continuation
                     /\ (opcode = WsOpcode_Continuation \/ ~data)
                  THEN open
                  ELSE -1

(* C4: fragmentation in character-stream mode.  The opcode of the first     *)
(* fragment stays remembered through the middle fragment and until the      *)
(* payload of the final fragment has been consumed completely, also when    *)
(* that payload arrives in several chunks; and once the whole message has   *)
(* been consumed and read, the reader has got the fragments' payloads       *)
(* joined in order.                                                         *)
C4_Fragmentation ==
    \A k \in Conns :
        (Receiving(k) /\ NothingDropped(k) /\ StreamMode(k)) =>
            LET c == pcbs[k].arg
                want == RefFragment(pcbs[k].all, Len(pcbs[k].fed), WsOpcode_Continuation)
            IN  /\ want # -1 => clients[c].fragment_opcode = want
                /\ (pcbs[k].all = Fragments /\ pcbs[k].wire = <<>>
                        /\ ~streambuffers.rxbuf.overflow /\ RxContent(World) = <<>>)
                      => obs.read = <<97, 98, 99, 100>>

-----------------------------------------------------------------------------
\* a is b with some elements left out
RECURSIVE IsSubseq(_, _)
IsSubseq(a, b) ==
    IF a = <<>> THEN TRUE
    ELSE IF b = <<>> THEN FALSE
    ELSE IF Head(a) = Head(b) THEN IsSubseq(Tail(a), Tail(b))
    ELSE IsSubseq(a, Tail(b))

(* C5: masking.  Every byte that reached the inbound ring is a payload byte  *)
(* of a data frame unmasked with mask[i mod 4] at its offset i in the frame, *)
(* and every payload handed to a frame handler is the payload of one of the  *)
(* peer's data frames unmasked in the same way.                              *)
C5_Masking ==
    \A k \in Conns :
        (pcbs[k].arg # NULL /\ NothingDropped(k)) =>
            LET fr == RefFrames(pcbs[k].all)
            IN  /\ IsSubseq(obs.read \o RxContent(World), RefStream(pcbs[k].all))
                /\ \A i \in 1 .. Len(obs.frames) :
                      \E j \in 1 .. Len(fr) :
                          RefIsData(fr[j]) /\ obs.frames[i].data = fr[j].payload

-----------------------------------------------------------------------------
\* the header length that the header bytes seen so far call for
RefHdrNeed(seen) == IF Len(seen) >= 2 /\ seen[2] % 128 = 126 THEN 8 ELSE 6

\* the payload length a complete header holds
RefHdrPayloadLen(seen) ==
    IF seen[2] % 128 = 126 THEN seen[3] * 256 + seen[4] ELSE seen[2] % 128

\* header h is a complete header made of its own bytes
HeaderDecoded(h) ==
    /\ h.idx = RefHdrNeed(h.data)
    /\ Len(h.data) = h.idx
    /\ h.payload_len = RefHdrPayloadLen(h.data)
    /\ h.mask = SubSeq(h.data, h.idx - 3, h.idx)

(* C6: header parsing.  A header held by a session is complete exactly when  *)
(* it has 6 bytes, or 8 when the 7 bit length is 126; its payload length is  *)
(* the 7 bit length or bytes 2..3 high byte first, and its mask the 4 bytes  *)
(* before the payload.  From a header begun with any number of bytes, a call *)
(* given n more bytes takes just the bytes the header still lacks, re-reads  *)
(* none, and on completion sets the remaining payload to the payload length. *)
C6_HeaderParsing ==
    \A k \in Conns :
        Receiving(k) =>
            LET c == pcbs[k].arg
                h == clients[c].header
                rest == pcbs[k].wire
            IN  /\ h.complete => HeaderDecoded(h) /\ h.payload_rem <= h.payload_len
                /\ ~h.complete => Len(h.data) = h.idx /\ h.idx < RefHdrNeed(h.data)
                /\ ~h.complete =>
                     \A n \in 1 .. Len(rest) :
                        LET seen == h.data \o SubSeq(rest, 1, n)
                            need == RefHdrNeed(seen)
                            r == collect_header(h, rest, 0, n)
                            after == websocket_msg_parse(World, c, SubSeq(rest, 1, n), 0, n,
                                                         Benign)
                            h2 == after.w.clients[c].header
                        IN  /\ Len(seen) < need =>
                                /\ ~r.h.complete /\ r.off = n /\ r.plen = 0
                                /\ r.h.idx = Len(seen) /\ r.h.data = seen
                                /\ after.consumed = n /\ h2 = r.h
                            /\ Len(seen) >= need =>
                                /\ r.h.complete /\ r.off = need - h.idx /\ r.plen = n - r.off
                                /\ r.h.data = SubSeq(seen, 1, need)
                                /\ HeaderDecoded(r.h)
                                /\ r.h.payload_rem = r.h.payload_len
                            /\ (Len(seen) = need /\ RefHdrPayloadLen(seen) > 0) =>
                                /\ after.consumed = n /\ h2 = r.h

\* a receive call has completed a header with a 16 bit length and has consumed
\* none of its payload yet
C6_Witness ==
    \E k \in Conns :
        /\ Receiving(k) /\ op = "websocket_recv"
        /\ pcbs[k].fed = SubSeq(BinaryExt, 1, 8)
        /\ LET h == clients[pcbs[k].arg].header
           IN  h.complete /\ h.idx = 8 /\ h.payload_len = 2 /\ h.payload_rem = 2

-----------------------------------------------------------------------------
(* C7: zero-length frames.  No call returns leaving a session with a         *)
(* complete header whose payload length is 0: the call that completes such  *)
(* a header finishes the frame and clears the header, whatever the opcode    *)
(* and whether or not a frame handler is registered.                         *)
C7_ZeroLength ==
    \A k \in Conns :
        (halted = "no" /\ pcbs[k].recv = "ws" /\ pcbs[k].arg # NULL) =>
            LET h == clients[pcbs[k].arg].header
            IN  ~(h.complete /\ h.payload_len = 0)

-----------------------------------------------------------------------------------------------------------------------------------------------------
(* The keep-alive: the same engine with the clock running                    *)

TextAD == Frame(1, WsOpcode_Text, FALSE, <<97, 98, 99, 100>>)

PingWires == {PongZ \o TextA, PongEmpty}

\* the clock moves in steps longer than the ping interval
InitPing == InitWith({0}, {Upgrade}, PingWires, {16})

NextPing ==
    \/ \E k \in Conns : Accept(k)
    \/ \E k \in Conns, cb \in Callbacks, e \in Env :
            HttpRecv(k, Len(pcbs[k].req), "none", cb, e)
    \/ \E k \in Conns : \E n1 \in 1 .. Len(pcbs[k].wire), e \in Env : Recv(k, n1, 0, e)
    \/ \E e \in Env : Poll(e)
    \/ GetC
    \/ Tick(PING_INTERVAL + 1)

SpecPing == InitPing /\ [][NextPing]_vars

\* a peer that never answers a Ping, with allocation and memory well behaved
IdleWires == {TextAD \o TextEmpty \o TextA}

InitIdle == InitWith({0}, {Upgrade}, IdleWires, {16})

NextIdle ==
    \/ \E k \in Conns : Accept(k)
    \/ \E k \in Conns, cb \in Callbacks :
            HttpRecv(k, Len(pcbs[k].req), "none", cb, Benign)
    \/ \E k \in Conns : \E n1 \in 1 .. Len(pcbs[k].wire) : Recv(k, n1, 0, Benign)
    \/ Poll(Benign)
    \/ GetC
    \/ Tick(PING_INTERVAL + 1)

SpecIdle == InitIdle /\ [][NextIdle]_vars

\* the Ping frames written to connection pcb so far
PingsWritten(pcb) ==
    Cardinality({i \in 1 .. Len(pcbs[pcb].out) : pcbs[pcb].out[i] = <<wshdr_ping, 2, 72, 105>>})

\* the peer of connection pcb sends no Pong
SendsNoPong(pcb) ==
    \A i \in 1 .. Len(RefFrames(pcbs[pcb].all)) :
        fs_opcode(RefFrames(pcbs[pcb].all)[i].start) # WsOpcode_Pong

(* C8: ping liveness.  A call of websocketd_poll that finds a Connected      *)
(* session with four Pings counted, whose peer sends no Pong, leaves the     *)
(* session Closing; and a call of websocketd_poll with no input pending      *)
(* moves a Connected session to Closing only when four Pings have been       *)
(* written and counted.                                                      *)
C8_PingLiveness ==
    [][\A c \in Slots :
          LET s == clients[c]
          IN  (op' = "websocketd_poll" /\ s.state = "Connected") =>
                  /\ (s.pingCount = PING_MAX + 1 /\ SendsNoPong(s.pcb))
                        => clients'[c].state = "Closing"
                  /\ (clients'[c].state = "Closing" /\ s.packet.p = <<>>)
                        => (s.pingCount = PING_MAX + 1 /\ PingsWritten(s.pcb) >= PING_MAX + 1)
      ]_vars

-----------------------------------------------------------------------------
\* what a parse call may hand to the firmware or the application
Delivered(w) == [ring |-> w.streambuffers.rxbuf, read |-> w.obs.read,
                 rt |-> w.obs.rt, frames |-> w.obs.frames]

(* C9: Pong.  Whenever a session stands in a Pong frame of its peer, at its  *)
(* start or anywhere inside it, feeding the rest of that frame, in one call  *)
(* or in two calls split at any byte, leaves the ping counter at 0, the      *)
(* header cleared, and the inbound ring and the frame handlers untouched.    *)
C9_Pong ==
    \A k \in Conns :
        (Receiving(k) /\ NothingDropped(k)) =>
            LET c == pcbs[k].arg
                at == RefOffset(pcbs[k].all, Len(pcbs[k].fed))
                frame == SubSeq(pcbs[k].all, Len(pcbs[k].fed) - at + 1, Len(pcbs[k].all))
                left == RefFrameLen(frame) - at
                rest == SubSeq(pcbs[k].wire, 1, left)
            IN  (/\ ParserOffset(c) = at
                 /\ Len(frame) >= RefFrameLen(frame)
                 /\ fs_opcode(frame[1]) = WsOpcode_Pong
                 /\ Len(pcbs[k].wire) >= left) =>
                    \A e \in Env : \A m \in 0 .. (left - 1) :
                        LET r1 == websocket_msg_parse(World, c, rest, 0, m, e)
                            r2 == websocket_msg_parse(r1.w, c, rest, m, left - m, e)
                        IN  /\ r1.consumed = m /\ r2.consumed = left - m
                            /\ r2.w.clients[c].pingCount = 0
                            /\ r2.w.clients[c].header = header0
                            /\ Delivered(r1.w) = Delivered(World)
                            /\ Delivered(r2.w) = Delivered(World)
                            /\ (m > 0 => r1.w.clients[c].pingCount = clients[c].pingCount)

\* Pings were written and counted, and a receive call has since finished the
\* peer's Pong: the counter is back at 0
C9_Witness ==
    \E k \in Conns :
        /\ Receiving(k) /\ op = "websocket_recv"
        /\ PingsWritten(k) >= 2
        /\ pcbs[k].fed = PongZ
        /\ clients[pcbs[k].arg].pingCount = 0
        /\ clients[pcbs[k].arg].header = header0

-----------------------------------------------------------------------------
\* the Pong frames owed for the frames fr[i], fr[i + 1], ...: one for each Ping
\* that comes before the first Close, with that Ping's payload
RECURSIVE RefPongs(_, _)
RefPongs(fr, i) ==
    IF i > Len(fr) \/ fs_opcode(fr[i].start) = WsOpcode_Close THEN <<>>
    ELSE IF fs_opcode(fr[i].start) = WsOpcode_Ping
    THEN <<(<<128 + WsOpcode_Pong, Len(fr[i].payload)>> \o fr[i].payload)>>
         \o RefPongs(fr, i + 1)
    ELSE RefPongs(fr, i + 1)

(* C10: Ping.  Once a session has consumed a number of whole frames, what    *)
(* was written to its connection after the handshake holds one Pong for      *)
(* each Ping consumed before a Close, carrying that Ping's payload (unless   *)
(* a Close echo was due, there is nothing else), and no Pong for a Ping     *)
(* consumed after a Close.                                                   *)
C10_Ping ==
    \A k \in Conns :
        (Receiving(k) /\ NothingDropped(k)
            /\ RefOffset(pcbs[k].all, Len(pcbs[k].fed)) = 0
            /\ ParserOffset(pcbs[k].arg) = 0) =>
            LET fr == RefFrames(SubSeq(pcbs[k].all, 1, Len(pcbs[k].fed)))
                written == SelectSeq(pcbs[k].out, LAMBDA x : x # <<HTTP_101>>)
                pongs == SelectSeq(written, LAMBDA x : x[1] = 128 + WsOpcode_Pong)
            IN  /\ pongs = RefPongs(fr, 1)
                /\ (\A i \in 1 .. Len(fr) : fs_opcode(fr[i].start) # WsOpcode_Close)
                      => written = pongs
-----------------------------------------------------------------------------
\* the Close frames owed for the frames fr[i], fr[i + 1], ...: one echo of the
\* first Close, carrying its payload
RECURSIVE RefCloses(_, _)
RefCloses(fr, i) ==
    IF i > Len(fr) THEN <<>>
    ELSE IF fs_opcode(fr[i].start) = WsOpcode_Close
    THEN <<(<<128 + WsOpcode_Close, Len(fr[i].payload)>> \o fr[i].payload)>>
    ELSE RefCloses(fr, i + 1)

\* the peer's bytes fed to connection k so far hold a whole Close frame
CloseFed(k) ==
    \E i \in 1 .. Len(RefFrames(pcbs[k].fed)) :
        fs_opcode(RefFrames(pcbs[k].fed)[i].start) = WsOpcode_Close

(* C11: Close.  A session that has left the handshake is Closing only when  *)
(* a whole Close frame of its peer has been fed to it, and once it has      *)
(* consumed a number of whole frames the Close frames written to its        *)
(* connection are exactly one echo of the first Close among them, carrying  *)
(* that Close's payload.                                                    *)
C11_Close ==
    \A k \in Conns :
        (Receiving(k) /\ NothingDropped(k)) =>
            LET c == pcbs[k].arg
                fr == RefFrames(pcbs[k].fed)
                written == SelectSeq(pcbs[k].out, LAMBDA x : x # <<HTTP_101>>)
                closes == SelectSeq(written, LAMBDA x : x[1] = 128 + WsOpcode_Close)
            IN  /\ clients[c].state = "Closing" => CloseFed(k)
                /\ (RefOffset(pcbs[k].all, Len(pcbs[k].fed)) = 0 /\ ParserOffset(c) = 0)
                      => /\ closes = RefCloses(fr, 1)
                         /\ CloseFed(k) => clients[c].state = "Closing"
-----------------------------------------------------------------------------
(* The session pool: more connections than there are slots                   *)

PoolConns == 0 .. (WEBUI_MAX_CLIENTS + 1)

NoConsumer == [txt |-> FALSE, bin |-> FALSE, connected |-> FALSE]

InitPool == InitWith(PoolConns, {Upgrade}, {<<>>}, {16})

\* connections are numbered in the order in which they arrive, and one arrives
\* when the handshakes of those before it are over
NextPool ==
    \/ \E k \in Conns : (\A j \in Conns : j < k => pcbs[j].recv \in {"ws", "none"}
                                                     /\ pcbs[j].state # "idle")
                         /\ Accept(k)
    \/ \E k \in Conns : HttpRecv(k, Len(pcbs[k].req), "none", NoConsumer, Benign)
    \/ \E k \in Conns : Err(k)

SpecPool == InitPool /\ [][NextPool]_vars

\* the slots that are Free
FreeSlots == {c \in Slots : clients[c].state = "Free"}

-----------------------------------------------------------------------------
\* session c of world w is Free and holds no packet chain, no handshake buffer,
\* no reassembly buffer and no connection
TornDown(w, c) ==
    /\ w.clients[c].state = "Free"
    /\ w.clients[c].packet.p = <<>>
    /\ IsNull(w.clients[c].http_request)
    /\ IsNull(w.clients[c].payload)
    /\ IsNull(w.clients[c].header.frame)
    /\ w.clients[c].pcb = NULL

\* what the application was told about session c
EventsFor(w, c) == SelectSeq(w.obs.events, LAMBDA ev : ev[2] = c)

(* C13: teardown.  From every state a session can be in, websocket_err, a   *)
(* null delivery to websocket_recv or http_recv, and websocketd_stop leave  *)
(* the session Free with no packet chain, no handshake buffer, no           *)
(* reassembly buffer and no connection; and websocketd_stop leaves a        *)
(* session that is already Free as it was and tells the application         *)
(* nothing about it.                                                        *)
C13_Teardown ==
    /\ \A k \in Conns :
          (pcbs[k].state = "open" /\ pcbs[k].arg # NULL) =>
              /\ TornDown(websocket_err(World, pcbs[k].arg), pcbs[k].arg)
              /\ TornDown(websocket_recv_null(World, k), pcbs[k].arg)
              /\ TornDown(http_recv_null(World, k), pcbs[k].arg)
    /\ \A c \in Slots :
          /\ TornDown(websocketd_stop(World), c)
          /\ clients[c].state = "Free" =>
                /\ websocketd_stop(World).clients[c] = clients[c]
                /\ EventsFor(websocketd_stop(World), c) = EventsFor(World, c)
-----------------------------------------------------------------------------
(* The handshake: upgrade requests with and without a key and a protocol    *)
(* line, delivered in chunks, and the connection ended at any moment        *)

Requests ==
    {Upgrade, <<H_OTHER, H_END>>, <<H_PROT, H_KEY, H_END>>,
     <<H_ARDUINO, H_KEY, H_END>>, <<H_ARDUINO, H_END>>}

Policies == {"none", "text", "binary"}

InitHandshake == InitWith({0}, Requests, {<<>>}, {16})

NextHandshake ==
    \/ \E k \in Conns : Accept(k)
    \/ \E k \in Conns : \E n \in 1 .. Len(pcbs[k].req) :
            \E sel \in Policies, cb \in Callbacks, e \in Env : HttpRecv(k, n, sel, cb, e)
    \/ \E e \in Env : Poll(e)
    \/ \E k \in Conns : Err(k)
    \/ \E k \in Conns : RecvNull(k)
    \/ Stop

SpecHandshake == InitHandshake /\ [][NextHandshake]_vars

\* connection k is bound to a Connecting session that awaits request bytes
Handshaking(k) ==
    /\ halted = "no"
    /\ pcbs[k].state = "open" /\ pcbs[k].recv = "http" /\ pcbs[k].arg # NULL
    /\ clients[pcbs[k].arg].state = "Connecting"

\* the world after http_recv has been given the next n bytes of k's request
HttpStep(k, n, sel, cb, e) ==
    http_recv([World EXCEPT !.pcbs[k].req = SubSeq(@, n + 1, Len(@))],
              k, SubSeq(pcbs[k].req, 1, n), sel, cb, e)

\* the request bytes of connection k delivered once n more have been
Seen(k, n) == SubSeq(pcbs[k].reqall, 1, Len(pcbs[k].reqall) - Len(pcbs[k].req) + n)

Last(seq) == seq[Len(seq)]

\* a terminated request without a key, accumulated without allocation failure
Keyless(w, k, n) ==
    /\ Has(Seen(k, n), H_END) /\ ~Has(Seen(k, n), H_KEY)
    /\ w.pcbs[k].out # <<>> /\ Last(w.pcbs[k].out) # <<HTTP_500>>

\* a Connecting session becomes Connected only on a terminated request with
\* a key, with the 101 response written last
ConnectedOnlyOnKey(w, k, n) ==
    w.clients[pcbs[k].arg].state = "Connected" =>
        /\ Has(Seen(k, n), H_END) /\ Has(Seen(k, n), H_KEY)
        /\ w.pcbs[k].out # <<>> /\ Last(w.pcbs[k].out)[1] = HTTP_101

Rejected(w, c, pcb) ==
    /\ Last(w.pcbs[pcb].out) = <<HTTP_400>>
    /\ IsNull(w.clients[c].http_request)
    /\ w.clients[c].state = "Closing"
    /\ w.clients[c].pcb = pcb /\ w.pcbs[pcb].state = "open"

-----------------------------------------------------------------------------
\* the request of connection k offers sub-protocols, arduino among them
OffersArduino(k) == Has(pcbs[k].reqall, H_ARDUINO)

\* the request of connection k offers sub-protocols, none of them arduino
OffersOther(k) == Has(pcbs[k].reqall, H_PROT) /\ ~Has(pcbs[k].reqall, H_ARDUINO)

(* C15 as stated: sub-protocol negotiation.  When the handshake succeeds on *)
(* a request that offers arduino, the frame type is binary whatever policy  *)
(* is registered and whatever it answers; without a policy and without      *)
(* arduino the first candidate is named in the response and the frame type  *)
(* stays text.  (Allocation succeeds.)                                      *)
C15_Protocol ==
    \A k \in Conns :
        Handshaking(k) =>
            \A n \in 1 .. Len(pcbs[k].req) : \A sel \in Policies, cb \in Callbacks :
                HttpStep(k, n, sel, cb, Benign).clients[pcbs[k].arg].state = "Connected" =>
                    /\ OffersArduino(k) =>
                          HttpStep(k, n, sel, cb, Benign).clients[pcbs[k].arg].ftype = wshdr_bin
                    /\ (OffersOther(k) /\ sel = "none") =>
                          /\ HttpStep(k, n, sel, cb, Benign).clients[pcbs[k].arg].ftype = wshdr_txt
                          /\ Last(HttpStep(k, n, sel, cb, Benign).pcbs[k].out)
                                = <<HTTP_101, P_FIRST>>

\* the frame type and the response that a successful handshake must leave
\* for policy answer sel on the request of connection k
Negotiated(k, sel, e) ==
    IF ~(OffersArduino(k) \/ OffersOther(k)) \/ ~e.malloc_ok
    THEN [ftype |-> wshdr_txt, response |-> <<HTTP_101>>]
    ELSE IF sel = "binary" THEN [ftype |-> wshdr_bin, response |-> <<HTTP_101, P_POLICY>>]
    ELSE IF sel = "text" THEN [ftype |-> wshdr_txt, response |-> <<HTTP_101, P_POLICY>>]
    ELSE IF OffersArduino(k) THEN [ftype |-> wshdr_bin, response |-> <<HTTP_101, P_ARDUINO>>]
    ELSE [ftype |-> wshdr_txt, response |-> <<HTTP_101, P_FIRST>>]

(* C15 amended: when the handshake succeeds, a policy that answers with a   *)
(* protocol decides: that protocol is named in the response and the frame   *)
(* type is binary exactly when the policy says so, also when arduino is     *)
(* offered.  Only without a policy, or when the policy answers with none,   *)
(* does an offered arduino force binary, and otherwise the first candidate  *)
(* is named and the frame type stays text.  Without a protocol line, or     *)
(* when the candidates cannot be copied, no protocol is named and the       *)
(* frame type stays text.                                                   *)
C15_Protocol_Amended ==
    \A k \in Conns :
        Handshaking(k) =>
            \A n \in 1 .. Len(pcbs[k].req) : \A sel \in Policies, cb \in Callbacks, e \in Env :
                HttpStep(k, n, sel, cb, e).clients[pcbs[k].arg].state = "Connected" =>
                    /\ HttpStep(k, n, sel, cb, e).clients[pcbs[k].arg].ftype
                            = Negotiated(k, sel, e).ftype
                    /\ Last(HttpStep(k, n, sel, cb, e).pcbs[k].out)
                            = Negotiated(k, sel, e).response

\* a request offering arduino has been upgraded, and the frame type is text:
\* a policy has chosen
C15_Witness ==
    \E k \in Conns :
        /\ op = "http_recv"
        /\ pcbs[k].reqall = <<H_ARDUINO, H_KEY, H_END>> /\ pcbs[k].req = <<>>
        /\ pcbs[k].out = <<(<<HTTP_101, P_POLICY>>)>>
        /\ pcbs[k].arg # NULL
        /\ clients[pcbs[k].arg].state = "Connected"
        /\ clients[pcbs[k].arg].ftype = wshdr_txt
-----------------------------------------------------------------------------
(* Outbound: the firmware writes to the stream, the application sends       *)
(* frames, the poll writes the batch                                        *)

MaxWrites == 2          \* writes to a connection after the handshake response

SendLens == {0, 1, 125, 126, 127, 65535}

StreamOrHandlers ==
    {[txt |-> FALSE, bin |-> FALSE, connected |-> TRUE],
     [txt |-> TRUE,  bin |-> TRUE,  connected |-> FALSE]}

InitOutbound == InitWith({0}, {Upgrade}, {<<>>}, {6, 200})

\* connection k can take one more write
Writable(k) == Len(pcbs[k].out) <= MaxWrites

NextOutbound ==
    \/ \E k \in Conns : Accept(k)
    \/ \E k \in Conns, cb \in StreamOrHandlers :
            HttpRecv(k, Len(pcbs[k].req), "none", cb, Benign)
    \/ \E b \in {97, 98} : PutC(b)
    \/ \E k \in Conns : \E size \in SendLens, is_binary \in BOOLEAN, e \in Env :
            /\ pcbs[k].arg # NULL /\ pcbs[k].recv = "ws" /\ Writable(k)
            /\ SendFrame(pcbs[k].arg, 120, size, is_binary, e)
    \/ (\A k \in Conns : Writable(k)) /\ Poll(Benign)

SpecOutbound == InitOutbound /\ [][NextOutbound]_vars

\* the frame the encoder owes for a payload of size bytes taken from data
RefEncode(is_binary, data, size) ==
    <<128 + (IF is_binary THEN WsOpcode_Binary ELSE WsOpcode_Text)>>
    \o (IF size < 126 THEN <<size>> ELSE <<126, size \div 256, size % 256>>)
    \o [i \in 1 .. size |-> data[i]]

\* x is a data frame whose declared length is in shortest form, unmasked, and
\* equal to the number of payload bytes that follow
WellFormed(x) ==
    /\ Len(x) >= 2
    /\ x[1] \in {128 + WsOpcode_Text, 128 + WsOpcode_Binary}
    /\ x[2] <= 126
    /\ x[2] < 126 => Len(x) = 2 + x[2]
    /\ x[2] = 126 => /\ Len(x) >= 4
                     /\ x[3] * 256 + x[4] >= 126
                     /\ Len(x) = 4 + x[3] * 256 + x[4]

\* what was written to connection pcb of world w2 and not yet of world w1
Written(w1, w2, pcb) == SubSeq(w2.pcbs[pcb].out, Len(w1.pcbs[pcb].out) + 1, Len(w2.pcbs[pcb].out))

(* C16: frame encoding.  Whatever websocket_send_frame writes for a payload *)
(* of L bytes, L one of 0, 1, 125, 126, 127 and 65535, and whatever batch   *)
(* websocket_stream_handler writes, is one frame: the start byte with FIN   *)
(* and opcode text or binary, L as one byte if L < 126 and else 126 and L   *)
(* as two bytes high byte first, no mask bit, then exactly the L payload    *)
(* bytes.                                                                   *)
C16_FrameEncoding ==
    \A k \in Conns :
        (halted = "no" /\ pcbs[k].state = "open" /\ pcbs[k].recv = "ws") =>
            /\ \A size \in SendLens, is_binary \in BOOLEAN :
                  \A x \in {Written(World,
                                    websocket_send_frame(World, pcbs[k].arg,
                                        [i \in 1 .. size |-> 120], size, is_binary, Benign).w,
                                    k)} :
                      x # <<>> =>
                          /\ Len(x) = 1 /\ WellFormed(x[1])
                          /\ Len(x[1]) = (IF size < 126 THEN 2 ELSE 4) + size
                          /\ x[1] = RefEncode(is_binary, [i \in 1 .. size |-> 120], size)
            /\ clients[pcbs[k].arg].stream =>
                  \A x \in {Written(World, websocket_stream_handler(World, pcbs[k].arg, Benign), k)} :
                      x # <<>> =>
                          /\ Len(x) = 1 /\ WellFormed(x[1])
                          /\ x[1][1] = clients[pcbs[k].arg].ftype
                          /\ x[1] = RefEncode(x[1][1] = wshdr_bin,
                                              TxContent(World, Len(x[1]) - 2), Len(x[1]) - 2)

\* the decoder, fed the chain p on connection k at a frame boundary, comes
\* back at a frame boundary and has handed payload to the message handler
Decodes(k, p, is_binary, payload) ==
    LET c == pcbs[k].arg
        Decoded(r) ==
            /\ r.halted = "no"
            /\ r.clients[c].header = header0
            /\ r.obs.frames = Append(obs.frames,
                    [session |-> c, binary |-> is_binary, data |-> payload])
    IN  Decoded(websocket_recv(World, k, p, Benign))

\* session of connection k is connected, hands messages to handlers and
\* waits for the first byte of a frame
AtBoundary(k) ==
    /\ halted = "no" /\ pcbs[k].state = "open" /\ pcbs[k].recv = "ws"
    /\ clients[pcbs[k].arg].state = "Connected"
    /\ ~clients[pcbs[k].arg].stream
    /\ clients[pcbs[k].arg].header = header0
    /\ clients[pcbs[k].arg].packet.p = <<>>

(* C17: round trip.  The bytes websocket_send_frame writes for opcode text  *)
(* or binary and a payload of 0, 1, 125, 126, 127 or 65535 bytes, fed to    *)
(* the decoder of a session that waits for a frame, make the decoder hand   *)
(* over exactly that payload and wait for the next frame.                   *)
C17_RoundTrip ==
    \A k \in Conns :
        AtBoundary(k) =>
            \A size \in SendLens, is_binary \in BOOLEAN :
                \A x \in {Written(World,
                                  websocket_send_frame(World, pcbs[k].arg,
                                      [i \in 1 .. size |-> 120], size, is_binary, Benign).w,
                                  k)} :
                    x # <<>> => Decodes(k, x, is_binary, [i \in 1 .. size |-> 120])

-----------------------------------------------------------------------------
(* The inbound ring *)

\* websocketd_RxPutC would take a byte: a connected session owns the stream
RxOpen ==
    /\ halted = "no"
    /\ streambuffers.session # NULL
    /\ clients[streambuffers.session].state = "Connected"
    /\ hal.stream_type # "MPG"

(* C18: push on a full ring.  With RX_BUFFER_SIZE - 1 unread bytes in the   *)
(* inbound ring, websocketd_RxPutC of an ordinary byte returns false, sets  *)
(* the overflow flag and leaves head, tail and the unread bytes as they     *)
(* were, so that the reader still pops all RX_BUFFER_SIZE - 1 of them.      *)
C18_PushOnFull ==
    (RxOpen /\ streamRxCount(World) = RX_BUFFER_SIZE - 1) =>
        \A c \in {97, 0, 255} :
            \A r \in {websocketd_RxPutC(World, c)} :
                /\ ~r.ok
                /\ r.w.streambuffers.rxbuf.overflow
                /\ r.w.streambuffers.rxbuf.head = streambuffers.rxbuf.head
                /\ r.w.streambuffers.rxbuf.tail = streambuffers.rxbuf.tail
                /\ RxContent(r.w) = RxContent(World)
                /\ streamRxCount(r.w) = RX_BUFFER_SIZE - 1

MaxRead == 2            \* no cancel once the reader has popped this many bytes

StreamOnly == {[txt |-> FALSE, bin |-> FALSE, connected |-> TRUE]}

\* a Text frame that fills the ring and ends in a real-time command
TextFillRt ==
    Frame(1, WsOpcode_Text, FALSE, [i \in 1 .. RX_BUFFER_SIZE |->
                                        IF i < RX_BUFFER_SIZE THEN 96 + i ELSE ASCII_CAN])

InitRing == InitWith({0}, {Upgrade}, {TextAB \o TextA, TextFillRt}, {16})

NextRing ==
    \/ \E k \in Conns : Accept(k)
    \/ \E k \in Conns, cb \in StreamOnly : HttpRecv(k, Len(pcbs[k].req), "none", cb, Benign)
    \/ \E k \in Conns : \E n1 \in {7, 8, Len(pcbs[k].wire)} : Recv(k, n1, 0, Benign)
    \/ GetC
    \/ Len(obs.read) < MaxRead /\ RxCancel
    \/ RxFlush

SpecRing == InitRing /\ [][NextRing]_vars

(* C19: cancel and flush.  Whatever the inbound ring holds, after           *)
(* websocketd_RxCancel it holds exactly one unread byte, the cancel marker: *)
(* the next read returns it and the read after that returns no data; after  *)
(* streamRxFlush it holds no unread byte and streamRxFree is                *)
(* RX_BUFFER_SIZE - 1.                                                      *)
C19_CancelFlush ==
    halted = "no" =>
        /\ \A wc \in {websocketd_RxCancel(World)} :
              /\ RxContent(wc) = <<ASCII_CAN>>
              /\ \A r1 \in {streamGetC(wc)} :
                    /\ r1.obs.read = Append(obs.read, ASCII_CAN)
                    /\ r1.streambuffers.rxbuf.tail = r1.streambuffers.rxbuf.head
                    /\ streamGetC(r1) = r1
        /\ \A wf \in {streamRxFlush(World)} :
              /\ streamRxCount(wf) = 0
              /\ streamGetC(wf) = wf
              /\ streamRxFree(wf) = RX_BUFFER_SIZE - 1
        /\ op = "websocketd_RxCancel" => RxContent(World) = <<ASCII_CAN>>
        /\ op = "streamRxFlush" => streamRxCount(World) = 0

\* a cancel has dropped bytes that were pushed and never read
C19_Witness ==
    /\ op = "websocketd_RxCancel"
    /\ obs.read = <<>>
    /\ \E i \in 0 .. (RX_BUFFER_SIZE - 1) : streambuffers.rxbuf.data[i] = 97
    /\ RxContent(World) = <<ASCII_CAN>>

\* the character-stream session of connection k waits for a frame
StreamAtBoundary(k) ==
    /\ RxOpen /\ pcbs[k].state = "open" /\ pcbs[k].recv = "ws"
    /\ pcbs[k].arg = streambuffers.session
    /\ clients[pcbs[k].arg].stream_connected
    /\ clients[pcbs[k].arg].header = header0
    /\ clients[pcbs[k].arg].packet.p = <<>>

\* the ring without its overflow flag
RxRing(w) == [head |-> w.streambuffers.rxbuf.head, tail |-> w.streambuffers.rxbuf.tail,
              data |-> w.streambuffers.rxbuf.data]

(* C20: real-time interception.  A byte that enqueue_realtime_command takes *)
(* is not stored: websocketd_RxPutC returns true and leaves head, tail,     *)
(* content and overflow flag of the inbound ring as they were, full ring    *)
(* included; as the payload of a frame the byte is consumed, the frame ends *)
(* and the overflow flag is not set.                                        *)
C20_RealTime ==
    /\ RxOpen =>
          \A c \in RtChars :
              \A r \in {websocketd_RxPutC(World, c)} :
                  /\ r.ok
                  /\ r.w.streambuffers = streambuffers
                  /\ r.w.obs.rt = Append(obs.rt, c)
    /\ \A k \in Conns :
          StreamAtBoundary(k) =>
              \A c \in RtChars :
                  \A r \in {websocket_recv(World, k, <<Frame(1, WsOpcode_Text, FALSE, <<c>>)>>, Benign)} :
                      /\ r.halted = "no"
                      /\ RxRing(r) = RxRing(World)
                      /\ ~r.streambuffers.rxbuf.overflow
                      /\ r.obs.rt = Append(obs.rt, c)
                      /\ r.clients[pcbs[k].arg].header = header0
                      /\ r.pcbs[k].recved = pcbs[k].recved + 7

\* a frame has filled the ring and its last byte, a real-time command, was
\* taken by the handler
C20_Witness ==
    /\ op = "websocket_recv"
    /\ obs.rt = <<ASCII_CAN>>
    /\ obs.read = <<>>
    /\ streamRxCount(World) = RX_BUFFER_SIZE - 1
    /\ ~streambuffers.rxbuf.overflow
    /\ \A k \in Conns : pcbs[k].wire = <<>> /\ clients[pcbs[k].arg].header = header0

-----------------------------------------------------------------------------
(* Frame handlers *)

\* the session of connection k is connected and waits for a frame
FrameBoundary(k) ==
    /\ halted = "no" /\ pcbs[k].state = "open" /\ pcbs[k].recv = "ws"
    /\ pcbs[k].arg # NULL
    /\ clients[pcbs[k].arg].state = "Connected"
    /\ clients[pcbs[k].arg].header = header0
    /\ clients[pcbs[k].arg].packet.p = <<>>

\* a handler is registered in session c for binary (is_binary) or text frames
Registered(c, is_binary) ==
    IF is_binary THEN clients[c].on_bin_frame_received ELSE clients[c].on_txt_frame_received

DataFrame(is_binary, payload) ==
    Frame(1, IF is_binary THEN WsOpcode_Binary ELSE WsOpcode_Text, FALSE, payload)

\* the world after connection k got bytes in one chunk (n = 0) or in two,
\* the first of n bytes
FedIn(k, bytes, n, e) ==
    IF n = 0 THEN websocket_recv(World, k, <<bytes>>, e)
    ELSE LET First(w1) == IF w1.halted # "no" \/ w1.pcbs[k].state # "open" THEN w1
                          ELSE websocket_recv(w1, k, <<SubSeq(bytes, n + 1, Len(bytes))>>, e)
         IN  First(websocket_recv(World, k, <<SubSeq(bytes, 1, n)>>, e))

\* world r differs from the present one by one handler call with payload
HandedOver(r, c, is_binary, payload) ==
    /\ r.halted = "no"
    /\ r.obs.frames = Append(obs.frames,
            [session |-> c, binary |-> is_binary, data |-> payload])
    /\ r.streambuffers.rxbuf = streambuffers.rxbuf
    /\ r.obs.rt = obs.rt

Payloads == {<<97>>, <<97, 98>>, <<97, 98, 99>>}

(* C21: frame handler routing.  A data frame of a type for which the        *)
(* session has a handler causes exactly one handler call with the whole     *)
(* unmasked payload, whether it arrives in one chunk or split in two, and   *)
(* none of its bytes reach the inbound ring; a frame of a type without      *)
(* handler causes no handler call and takes the character-stream route.     *)
C21_HandlerRouting ==
    \A k \in Conns :
        FrameBoundary(k) =>
            \A is_binary \in BOOLEAN, payload \in Payloads, e \in Env :
                \A n \in 0 .. (5 + Len(payload)) :
                    \A r \in {FedIn(k, DataFrame(is_binary, payload), n, e)} :
                        IF Registered(pcbs[k].arg, is_binary)
                        THEN HandedOver(r, pcbs[k].arg, is_binary, payload)
                        ELSE /\ r.halted = "no"
                             /\ r.obs.frames = obs.frames
                             /\ (StreamAtBoundary(k) /\ Len(payload) <= streamRxFree(World))
                                    => RxContent(r) = RxContent(World) \o payload

-----------------------------------------------------------------------------
(* Order of arrival *)

\* the bytes of the packet session c of world w holds back, in order
PendingBytes(w, c) ==
    LET pk == w.clients[c].packet
    IN  IF pk.p = <<>> \/ pk.q = 0 THEN <<>>
        ELSE SubSeq(pk.p[pk.q], pk.off + 1, Len(pk.p[pk.q]))
             \o Concat([i \in 1 .. (Len(pk.p) - pk.q) |-> pk.p[pk.q + i]])

(* C22: arrival order.  Every chain the transport has delivered to a        *)
(* Connected session is taken by it, in the order of arrival; a chain that  *)
(* arrives while the session holds back a packet because the inbound ring   *)
(* overflowed is kept behind the bytes held back: it is neither dropped     *)
(* nor processed before them.                                               *)
C22_ArrivalOrder ==
    \A k \in Conns :
        (halted = "no" /\ pcbs[k].state = "open" /\ pcbs[k].recv = "ws"
            /\ pcbs[k].arg # NULL /\ clients[pcbs[k].arg].state = "Connected") =>
            /\ pcbs[k].all = pcbs[k].fed \o pcbs[k].wire
            /\ \A n \in 1 .. Len(pcbs[k].wire) :
                  clients[pcbs[k].arg].packet.p # <<>> =>
                      \A r \in {websocket_recv(World, k, <<SubSeq(pcbs[k].wire, 1, n)>>, Benign)} :
                          PendingBytes(r, pcbs[k].arg)
                              = PendingBytes(World, pcbs[k].arg) \o SubSeq(pcbs[k].wire, 1, n)

-----------------------------------------------------------------------------
(* Two sessions: connection 0 feeds the character stream, connection 1 a    *)
(* session with frame handlers                                              *)

BothHandlers == [txt |-> TRUE, bin |-> TRUE, connected |-> FALSE]
CharStream == [txt |-> FALSE, bin |-> FALSE, connected |-> TRUE]

InitTwo ==
    /\ InitWith({0, 1}, {Upgrade}, {TextAE, TextAB \o TextA}, {16})
    /\ pcbs[0].all = TextAE
    /\ pcbs[1].all = TextAB \o TextA

NextTwo ==
    \/ Accept(0)
    \/ pcbs[0].recv = "ws" /\ Accept(1)
    \/ HttpRecv(0, Len(pcbs[0].req), "none", CharStream, Benign)
    \/ HttpRecv(1, Len(pcbs[1].req), "none", BothHandlers, Benign)
    \/ \E k \in Conns : \E n1 \in 1 .. Len(pcbs[k].wire) : Recv(k, n1, 0, Benign)
    \/ Poll(Benign)
    \/ GetC

SpecTwo == InitTwo /\ [][NextTwo]_vars

\* world w with the overflow flag of the inbound ring cleared
NoOverflow(w) == [w EXCEPT !.streambuffers.rxbuf.overflow = FALSE]

(* C23: session isolation under overflow.  Whether or not the inbound ring  *)
(* has overflowed under the traffic of the character-stream session, a      *)
(* chain delivered to another session is handled in the same way, and no    *)
(* session other than the character-stream session ever holds a packet      *)
(* back.                                                                    *)
C23_Isolation ==
    \A k \in Conns :
        (halted = "no" /\ pcbs[k].state = "open" /\ pcbs[k].recv = "ws"
            /\ pcbs[k].arg # NULL /\ pcbs[k].arg # streambuffers.session) =>
            /\ clients[pcbs[k].arg].packet.p = <<>>
            /\ pcbs[k].all = pcbs[k].fed \o pcbs[k].wire
            /\ \A n \in 1 .. Len(pcbs[k].wire) :
                  NoOverflow(websocket_recv(World, k, <<SubSeq(pcbs[k].wire, 1, n)>>, Benign))
                      = websocket_recv(NoOverflow(World), k, <<SubSeq(pcbs[k].wire, 1, n)>>, Benign)

-----------------------------------------------------------------------------
(* Two handshakes at a time *)

InitInterleave ==
    InitWith({0, 1}, {Upgrade, <<H_OTHER, H_KEY, H_END>>}, {<<>>}, {16})

NextInterleave ==
    \/ \E k \in Conns : Accept(k)
    \/ \E k \in Conns : \E n \in 1 .. Len(pcbs[k].req) :
            HttpRecv(k, n, "none", BothHandlers, Benign)
    \/ \E k \in Conns : Err(k)

SpecInterleave == InitInterleave /\ [][NextInterleave]_vars

\* the request bytes connection k has been given so far
Given(k) == SubSeq(pcbs[k].reqall, 1, Len(pcbs[k].reqall) - Len(pcbs[k].req))

\* connection k is in the handshake and its request is begun but not ended
Accumulating(w, k) ==
    /\ w.halted = "no"
    /\ w.pcbs[k].state = "open" /\ w.pcbs[k].recv = "http" /\ w.pcbs[k].arg # NULL
    /\ w.clients[w.pcbs[k].arg].state = "Connecting"
    /\ ~IsNull(w.clients[w.pcbs[k].arg].http_request)

\* the first n bytes session c of world w has accumulated
Accumulated(w, c, n) == heap_read(w.clients[c].http_request, 0, n, Benign)

\* world w after http_recv has been given the next n bytes of k's request
HttpStepIn(w, k, n) ==
    http_recv([w EXCEPT !.pcbs[k].req = SubSeq(@, n + 1, Len(@))],
              k, SubSeq(w.pcbs[k].req, 1, n), "none", BothHandlers, Benign)

(* C24: handshake accumulation is per session.  The request a Connecting    *)
(* session has accumulated is exactly the bytes delivered to it, in order,  *)
(* also when chunks for another Connecting session arrive in between: a     *)
(* delivery to one session does not move the place where the next byte of   *)
(* the other is stored.                                                     *)
C24_Accumulation ==
    \A k \in Conns :
        Accumulating(World, k) =>
            /\ Accumulated(World, pcbs[k].arg, Len(Given(k))) = Given(k)
            /\ \A j \in Conns \ {k} :
                  (Handshaking(j) /\ pcbs[k].req # <<>>) =>
                      \A m \in 1 .. Len(pcbs[j].req) :
                          \A r \in {HttpStepIn(HttpStepIn(World, j, m), k, 1)} :
                              Accumulating(r, k) =>
                                  Accumulated(r, pcbs[k].arg, Len(Given(k)) + 1)
                                      = SubSeq(pcbs[k].reqall, 1, Len(Given(k)) + 1)

-----------------------------------------------------------------------------
(* Slots and the connections bound to them *)

\* an upgrade request that does not end within twice MAX_HTTP_HEADER_SIZE
Oversize == [i \in 1 .. (2 * MAX_HTTP_HEADER_SIZE + 1) |-> H_OTHER] \o <<H_KEY, H_END>>

InitBinding ==
    InitWith({0, 1}, {Upgrade, Oversize}, {<<>>}, {16})

NextBinding ==
    \/ \E k \in Conns : Accept(k)
    \/ \E k \in Conns : \E n \in {Len(pcbs[k].req) - 2, Len(pcbs[k].req) - 1, Len(pcbs[k].req)} :
            HttpRecv(k, n, "none", BothHandlers, Benign)
    \/ Poll(Benign)
    \/ \E k \in Conns : Err(k)

SpecBinding == InitBinding /\ [][NextBinding]_vars

\* the open connections whose callbacks have session slot c as argument
BoundTo(c) == {k \in Conns : pcbs[k].state = "open" /\ pcbs[k].arg = c}

(* C25: no double assignment.  At most one open connection has its         *)
(* callbacks bound to a session slot, and a slot that is Free has none, so  *)
(* that websocketd_accept never gives a slot to a new connection while an   *)
(* earlier one can still deliver bytes to it.                               *)
C25_NoDoubleAssignment ==
    \A c \in Slots :
        /\ Cardinality(BoundTo(c)) <= 1
        /\ clients[c].state = "Free" => BoundTo(c) = {}

\* a session may go from state a to state b
Allowed(a, b) ==
    \/ a = b
    \/ b = "Free"
    \/ a = "Free" /\ b = "Connecting"
    \/ a = "Connecting" /\ b \in {"Connected", "Closing"}
    \/ a = "Connected" /\ b = "Closing"

(* C26: allowed transitions.  A session goes from Free to Connecting, from  *)
(* Connecting to Connected, Closing or Free, from Connected to Closing,     *)
(* from Closing to Free and from any state to Free, and in no other way; a  *)
(* slot that is Free leaves Free only through websocketd_accept.            *)
C26_Transitions ==
    [][\A c \in Slots :
          /\ Allowed(clients[c].state, clients'[c].state)
          /\ (clients[c].state = "Free" /\ clients'[c].state # "Free") => op' = "accept"]_vars

-----------------------------------------------------------------------------
(* Closing *)

\* in world r session c is Free and connection pcb, if any, is detached and
\* closed
Drained(r, c, pcb) ==
    /\ r.halted = "no"
    /\ r.clients[c].state = "Free"
    /\ pcb # NULL => /\ r.pcbs[pcb].state = "closed"
                     /\ r.pcbs[pcb].arg = NULL
                     /\ r.pcbs[pcb].recv = "none"

(* C27: Closing drains to Free.  A session that is Closing, whether by a    *)
(* Close frame, by unanswered Pings or by a rejected handshake, is Free,    *)
(* with its connection detached and closed, after the first                 *)
(* websocketd_poll that follows, also when the transport delivers a chunk   *)
(* to it before that poll.                                                  *)
C27_ClosingDrains ==
    \A c \in Slots :
        (halted = "no" /\ clients[c].state = "Closing") =>
            /\ Drained(websocketd_poll(World, Benign), c, clients[c].pcb)
            /\ \A k \in BoundTo(c) :
                  /\ pcbs[k].recv = "http" =>
                        \A n \in 1 .. Len(pcbs[k].req) :
                            Drained(websocketd_poll(HttpStepIn(World, k, n), Benign), c, k)
                  /\ pcbs[k].recv = "ws" =>
                        \A n \in 1 .. Len(pcbs[k].wire) :
                            Drained(websocketd_poll(
                                        websocket_recv(World, k, <<SubSeq(pcbs[k].wire, 1, n)>>, Benign),
                                        Benign), c, k)

-----------------------------------------------------------------------------
(* Ping timing *)

PingFrame == <<wshdr_ping, 2, 72, 105>>

\* the Ping frames among the writes ws
PingsIn(ws) == Cardinality({i \in 1 .. Len(ws) : ws[i] = PingFrame})

InitTiming == InitWith({0}, {Upgrade}, {PingXY \o PongZ, TextA}, {SNDBUF_MIN, 16})

NextTiming ==
    \/ \E k \in Conns : Accept(k)
    \/ \E k \in Conns, cb \in {CharStream, BothHandlers} :
            HttpRecv(k, Len(pcbs[k].req), "none", cb, Benign)
    \/ \E k \in Conns : pcbs[k].wire # <<>> /\ Recv(k, Len(pcbs[k].wire), 0, Benign)
    \/ (\A k \in Conns : Writable(k)) /\ PutC(97)
    \/ Poll(Benign)
    \/ Tick(PING_INTERVAL + 1)

SpecTiming == InitTiming /\ [][NextTiming]_vars

(* C28: ping timing.  websocketd_poll writes a Ping only to a session that  *)
(* is Connected, whose last send time is more than PING_INTERVAL ago and    *)
(* whose send window exceeds SNDBUF_MIN; with the Ping the ping counter     *)
(* grows by exactly one and the send time becomes the present time; a data  *)
(* frame sent by websocket_send_frame or websocket_stream_handler makes the *)
(* send time the present time and leaves the ping counter alone; and no     *)
(* Ping is written while the last frame written to the connection, of       *)
(* whatever kind, is not yet more than PING_INTERVAL old.                   *)
C28_PingTiming ==
    \A k \in Conns :
        (halted = "no" /\ pcbs[k].state = "open" /\ pcbs[k].arg # NULL) =>
            /\ \A r \in {websocketd_poll(World, Benign)} :
                  (r.halted = "no" /\ PingsIn(Written(World, r, k)) > 0) =>
                      /\ clients[pcbs[k].arg].state = "Connected"
                      /\ now - clients[pcbs[k].arg].lastSendTime > PING_INTERVAL
                      /\ pcbs[k].sndbuf > SNDBUF_MIN
                      /\ Written(World, r, k) = <<PingFrame>>
                      /\ r.clients[pcbs[k].arg].pingCount = clients[pcbs[k].arg].pingCount + 1
                      /\ r.clients[pcbs[k].arg].lastSendTime = now
            /\ clients[pcbs[k].arg].state = "Connected" =>
                  \A r \in {websocket_send_frame(World, pcbs[k].arg, <<120>>, 1, FALSE, Benign).w,
                             websocket_stream_handler(World, pcbs[k].arg, Benign)} :
                      (r.halted = "no" /\ Written(World, r, k) # <<>>) =>
                          /\ r.clients[pcbs[k].arg].lastSendTime = now
                          /\ r.clients[pcbs[k].arg].pingCount = clients[pcbs[k].arg].pingCount
                          /\ PingsIn(Written(r, websocketd_poll(r, Benign), k)) = 0
            /\ (FrameBoundary(k) /\ pcbs[k].wire # <<>>) =>
                  \A r \in {websocket_recv(World, k, <<pcbs[k].wire>>, Benign)} :
                      (r.halted = "no" /\ Written(World, r, k) # <<>>) =>
                          PingsIn(Written(r, websocketd_poll(r, Benign), k)) = 0

-----------------------------------------------------------------------------
(* Outbound batching *)

\* the application queues the bytes a, b, a, b, ... and polls send them; a
\* poll may find the transport out of memory
InitBatch == InitWith({0}, {Upgrade}, {<<>>}, {SNDBUF_MIN, SNDBUF_MIN + 2, 16})

NextBatch ==
    \/ \E k \in Conns : Accept(k)
    \/ \E k \in Conns : HttpRecv(k, Len(pcbs[k].req), "none", CharStream, Benign)
    \/ (\A k \in Conns : Writable(k)) /\ PutC(97 + (streambuffers.txbuf.head % 2))
    \/ \E e \in Env : (\A k \in Conns : Writable(k)) /\ Poll(e)

SpecBatch == InitBatch /\ [][NextBatch]_vars

\* the bytes of the outbound ring in the order streamPutC queued them: the
\* oldest is at tail, the newest just before head
QueuedTx(w) ==
    [i \in 1 .. streamTxCount(w) |->
        w.streambuffers.txbuf.data[(w.streambuffers.txbuf.tail + i - 1) % TX_BUFFER_SIZE]]

\* the session of connection k is Connected, owns the character stream and
\* holds no packet back
Streaming(k) ==
    /\ halted = "no" /\ pcbs[k].state = "open" /\ pcbs[k].recv = "ws"
    /\ pcbs[k].arg # NULL /\ pcbs[k].arg = streambuffers.session
    /\ clients[pcbs[k].arg].state = "Connected" /\ clients[pcbs[k].arg].stream
    /\ clients[pcbs[k].arg].packet.p = <<>>

(* C29: outbound batching.  websocket_stream_handler writes a data frame    *)
(* only when the outbound ring holds bytes and the send window exceeds      *)
(* SNDBUF_MIN; its payload is the first min(bytes queued, window -          *)
(* SNDBUF_MIN) bytes of the ring in the order they were queued, and just    *)
(* these leave the ring; with a window of SNDBUF_MIN or less the ring is    *)
(* left as it is.                                                           *)
C29_Batching ==
    \A k \in Conns :
        Streaming(k) =>
            \A e \in Env :
                \A r \in {websocket_stream_handler(World, pcbs[k].arg, e)} :
                    /\ r.halted = "no"
                    /\ Written(World, r, k) # <<>> =>
                          /\ streamTxCount(World) > 0 /\ pcbs[k].sndbuf > SNDBUF_MIN
                          /\ \A n \in {Min(streamTxCount(World), pcbs[k].sndbuf - SNDBUF_MIN)} :
                                /\ Written(World, r, k)
                                      = <<RefEncode(clients[pcbs[k].arg].ftype = wshdr_bin,
                                                    QueuedTx(World), n)>>
                                /\ streamTxCount(r) = streamTxCount(World) - n
                                /\ QueuedTx(r) = SubSeq(QueuedTx(World), n + 1,
                                                        streamTxCount(World))
                    /\ pcbs[k].sndbuf <= SNDBUF_MIN =>
                          /\ r.streambuffers.txbuf = streambuffers.txbuf
                          /\ Written(World, r, k) = <<>>

\* a poll has written a batch that the window cut short: bytes of two values
\* were queued, the first two were sent and the rest stayed in the ring
C29_Witness ==
    \E k \in Conns :
        /\ Streaming(k) /\ op = "websocketd_poll"
        /\ pcbs[k].sndbuf = SNDBUF_MIN + 2
        /\ Len(pcbs[k].out) = 2
        /\ pcbs[k].out[2] = <<wshdr_txt, 2, 97, 98>>
        /\ streamTxCount(World) = 1

-----------------------------------------------------------------------------
(* Outbound bytes and refused writes *)

\* the payload bytes of the data frames ws, in order
RECURSIVE PayloadsOf(_)
PayloadsOf(ws) ==
    IF ws = <<>> THEN <<>>
    ELSE (IF Head(ws)[2] < 126 THEN SubSeq(Head(ws), 3, Len(Head(ws)))
          ELSE SubSeq(Head(ws), 5, Len(Head(ws))))
         \o PayloadsOf(Tail(ws))

(* C30: outbound bytes survive a refused write.  Whatever the transport     *)
(* answers to the write of websocket_stream_handler, the bytes that were in *)
(* the outbound ring are afterwards either sent or still queued, each once  *)
(* and in the order they were queued: a batch the transport refused is      *)
(* still in the ring.                                                       *)
C30_SendFailure ==
    \A k \in Conns :
        Streaming(k) =>
            \A e \in Env :
                \A r \in {websocket_stream_handler(World, pcbs[k].arg, e)} :
                    PayloadsOf(Written(World, r, k)) \o QueuedTx(r) = QueuedTx(World)

-----------------------------------------------------------------------------
(* Header and remaining-length bookkeeping *)

\* the header of a session is well formed: at most 8 bytes collected, complete
\* only at 6 or 8 of them, no more payload left than the frame has
HeaderBounds(h) ==
    /\ h.idx <= 8 /\ Len(h.data) = h.idx
    /\ h.complete => (h.idx \in {6, 8} /\ h.payload_rem <= h.payload_len)

\* the header is cleared: nothing collected, not complete, no reassembly buffer
Cleared(h) == h.idx = 0 /\ ~h.complete /\ IsNull(h.frame)

\* one call of websocket_msg_parse that finds the complete header h0 and leaves
\* h1 after taking `consumed` bytes: the header is kept and the counter does
\* not grow while payload is left, and it is cleared exactly when the call has
\* taken the last payload byte
FrameStep(h0, h1, consumed) ==
    /\ ~Cleared(h1) =>
            /\ h1.complete /\ h1.data = h0.data /\ h1.payload_len = h0.payload_len
            /\ h1.payload_rem <= h0.payload_rem
            /\ h1.payload_rem > 0
    /\ Cleared(h1) => consumed = h0.payload_rem

(* C31: header and remaining-length invariants.  In every state the header  *)
(* of every session holds at most 8 bytes and is complete only at 6 or 8,   *)
(* with a remaining-payload counter that does not exceed the decoded        *)
(* length; a session that has consumed all it was given never rests on a    *)
(* complete header whose counter is 0; and a parse call on a frame in       *)
(* progress keeps the header and does not increase the counter, clearing    *)
(* the header exactly when it has consumed the last payload byte.           *)
C31_HeaderInvariants ==
    /\ \A c \in Slots : HeaderBounds(clients[c].header)
    /\ \A k \in Conns :
          (Receiving(k) /\ NothingDropped(k)) =>
            LET c == pcbs[k].arg
                h0 == clients[c].header
            IN  /\ h0.complete => h0.payload_rem > 0
                /\ h0.complete =>
                      \A n \in 1 .. Len(pcbs[k].wire) : \A e \in Env :
                        \A r \in {websocket_msg_parse(World, c, SubSeq(pcbs[k].wire, 1, n), 0, n, e)} :
                            r.w.halted = "no" =>
                                /\ HeaderBounds(r.w.clients[c].header)
                                /\ FrameStep(h0, r.w.clients[c].header, r.consumed)

-----------------------------------------------------------------------------
(* Link loss *)

\* more connections than slots arrive one after the other, none of them ever
\* reports an error or a close, the link goes down and up, and the sessions
\* are polled as time passes
NextLink ==
    \/ \E k \in Conns : (\A j \in Conns : j < k => pcbs[j].recv \in {"ws", "none"}
                                                     /\ pcbs[j].state # "idle")
                         /\ Accept(k)
    \/ \E k \in Conns : HttpRecv(k, Len(pcbs[k].req), "none", NoConsumer, Benign)
    \/ \E up \in BOOLEAN : NotifyLinkStatus(up)
    \/ Poll(Benign)
    \/ Tick(PING_INTERVAL + 1)

SpecLink == InitPool /\ [][NextLink]_vars

(* C32: link-loss reclaim.  When no slot is Free and a link loss has been   *)
(* notified, a call of websocketd_accept leaves a slot reclaimed and the    *)
(* link-lost flag cleared, so that the next call of websocketd_accept for   *)
(* a new connection succeeds without any of the old connections having      *)
(* reported an error or a close.                                            *)
C32_LinkLossReclaim ==
    (halted = "no" /\ FreeSlots = {} /\ ws_server.link_lost) =>
        \A k \in Conns : \A j \in Conns \ {k} :
            (pcbs[k].state = "idle" /\ pcbs[j].state = "idle") =>
                \A w1 \in {websocketd_accept(World, k)} :
                    /\ ~w1.ws_server.link_lost
                    /\ websocketd_accept(w1, j).pcbs[j].state = "open"

-----------------------------------------------------------------------------
(* Reassembly without memory *)

\* the run in which no allocation succeeds
NoMem == [malloc_ok |-> FALSE, intact |-> TRUE, junk |-> 0]

\* world r has taken everything it was given on connection k and its session
\* c waits for the first byte of a frame
AtFrameStart(r, k, c, given) ==
    /\ r.halted = "no"
    /\ r.clients[c].packet.p = <<>>
    /\ r.clients[c].header = header0
    /\ IsNull(r.clients[c].payload)
    /\ r.pcbs[k].recved = pcbs[k].recved + given

(* C33: a reassembly buffer that cannot be allocated.  A data frame of a    *)
(* type with a handler, or a Ping, that arrives split in two chunks while   *)
(* no memory can be allocated is dropped: no handler is called for it,      *)
(* the inbound ring stays as it is, exactly the bytes of the frame are      *)
(* consumed, and a frame that follows it, in the same chunk as its end or   *)
(* in a chunk of its own, is parsed as if the dropped frame had not been    *)
(* there.                                                                   *)
C33_AllocationFailure ==
    \A k \in Conns :
        FrameBoundary(k) =>
            \A payload \in Payloads \ {<<97>>} :
              \A n \in 7 .. (5 + Len(payload)) :
                LET c == pcbs[k].arg
                    ping == Frame(1, WsOpcode_Ping, FALSE, payload)
                IN  /\ \A is_binary \in BOOLEAN :
                          Registered(c, is_binary) =>
                            LET frame == DataFrame(is_binary, payload)
                                next == DataFrame(is_binary, <<100>>)
                            IN  /\ \A r \in {FedIn(k, frame, n, NoMem)} :
                                      /\ AtFrameStart(r, k, c, Len(frame))
                                      /\ r.obs.frames = obs.frames
                                      /\ r.streambuffers.rxbuf = streambuffers.rxbuf
                                /\ \A r \in {FedIn(k, frame \o next, n, NoMem)} :
                                      /\ AtFrameStart(r, k, c, Len(frame) + Len(next))
                                      /\ r.obs.frames = Append(obs.frames,
                                            [session |-> c, binary |-> is_binary, data |-> <<100>>])
                                      /\ r.streambuffers.rxbuf = streambuffers.rxbuf
                    /\ \A r \in {FedIn(k, ping \o PongEmpty, n, NoMem)} :
                          /\ AtFrameStart(r, k, c, Len(ping) + Len(PongEmpty))
                          /\ r.obs.frames = obs.frames
                          /\ r.clients[c].pingCount = 0

-----------------------------------------------------------------------------
(* The size cap of the handshake *)

\* every byte stored in the handshake buffer of session c of world w lies
\* inside its allocation
InsideAllocation(w, c) ==
    IsNull(w.clients[c].http_request)
        \/ Len(w.clients[c].http_request.mem) <= w.clients[c].http_request.cap

\* what the copy loop of http_recv leaves of the accumulator of connection k
\* when it is given the next n bytes of k's request
Copied(k, n) ==
    LET s == clients[pcbs[k].arg]
        first == IsNull(s.http_request)
    IN  http_copy(IF first THEN malloc(s.hdrsize) ELSE s.http_request,
                  s.hdrsize, IF first THEN 0 ELSE ptr, SubSeq(pcbs[k].req, 1, n), 1, Benign)

\* session c of world w is released after a 400 on connection k, which is closed
Released(w, c, k) ==
    /\ w.pcbs[k].out # <<>> /\ Last(w.pcbs[k].out) = <<HTTP_400>>
    /\ IsNull(w.clients[c].http_request)
    /\ w.clients[c].state = "Free"
    /\ w.pcbs[k].state = "closed" /\ w.pcbs[k].arg = NULL

(* C34: handshake size cap.  A chunk that leaves the request of a           *)
(* Connecting session without terminator and at most twice                  *)
(* MAX_HTTP_HEADER_SIZE long leaves the session Connecting with all bytes   *)
(* delivered so far accumulated; a chunk that takes an unterminated         *)
(* request beyond twice MAX_HTTP_HEADER_SIZE is answered 400, the           *)
(* accumulator is freed and the session released with its connection       *)
(* closed; and no byte is ever stored outside the accumulator's allocation. *)
C34_SizeCap ==
    /\ \A c \in Slots : InsideAllocation(World, c)
    /\ \A k \in Conns :
          Handshaking(k) =>
            \A n \in 1 .. Len(pcbs[k].req) :
                \A r \in {HttpStepIn(World, k, n)} :
                    /\ Len(Copied(k, n).buf.mem) <= Copied(k, n).buf.cap
                    /\ Copied(k, n).ptr < Copied(k, n).buf.cap
                    /\ ~Has(Seen(k, n), H_END) =>
                        IF Len(Seen(k, n)) <= 2 * MAX_HTTP_HEADER_SIZE
                        THEN /\ Accumulating(r, k)
                             /\ InsideAllocation(r, pcbs[k].arg)
                             /\ Accumulated(r, pcbs[k].arg, Len(Seen(k, n))) = Seen(k, n)
                        ELSE Released(r, pcbs[k].arg, k)

-----------------------------------------------------------------------------
(* Session handles *)

\* the handles the application calls with: none, a slot that was never
\* accepted, and the slot the connection gets
Handles == {NULL, 0, WEBUI_MAX_CLIENTS - 1}

InitHandle == InitWith({0}, {Upgrade, <<H_OTHER, H_END>>}, {CloseEmpty}, {16})

\* one connection is accepted, shakes hands, is closed by either side or
\* dropped, and the application calls the API at any moment
NextHandle ==
    \/ \E k \in Conns : Accept(k)
    \/ \E k \in Conns, cb \in Callbacks : HttpRecv(k, Len(pcbs[k].req), "none", cb, Benign)
    \/ \E k \in Conns : pcbs[k].wire # <<>> /\ Recv(k, Len(pcbs[k].wire), 0, Benign)
    \/ Poll(Benign)
    \/ \E k \in Conns : Err(k)
    \/ \E k \in Conns : RecvNull(k)
    \/ \E c \in Handles : (\A k \in Conns : Writable(k)) /\ SendFrame(c, 97, 1, FALSE, Benign)
    \/ \E c \in Handles, binary \in BOOLEAN : RegisterFrameHandler(c, TRUE, binary)
    \/ \E c \in Handles, connected \in BOOLEAN : SetStreamFlags(c, connected)

SpecHandle == InitHandle /\ [][NextHandle]_vars

\* handle c is null or names a session that is not in use
Stale(c) == c = NULL \/ clients[c].state = "Free"

(* C35: session handle validity.  Called with a null handle or with the     *)
(* handle of a session that is Free, websocket_send_frame,                  *)
(* websocket_register_frame_handler and websocket_set_stream_flags return   *)
(* false and leave everything as it is: nothing is written to a connection, *)
(* no handler and no flag is stored.  They return true only for a session   *)
(* that has been accepted and not yet torn down.                            *)
C35_HandleValidity ==
    \A c \in Slots \cup {NULL} :
        \A flag \in BOOLEAN, e \in Env :
            \A r \in {websocket_send_frame(World, c, <<97>>, 1, flag, e),
                       websocket_register_frame_handler(World, c, TRUE, flag),
                       websocket_register_frame_handler(World, c, FALSE, flag),
                       websocket_set_stream_flags(World, c, flag)} :
                /\ Stale(c) => (~r.ok /\ r.w = World)
                /\ r.ok => /\ clients[c].state \in {"Connecting", "Connected", "Closing"}
                           /\ clients[c].pcb # NULL

\* the session was torn down and the application has since called
\* websocket_register_frame_handler: the slot is Free and holds no handler
C35_Witness ==
    /\ op = "websocket_register_frame_handler"
    /\ \E i \in 1 .. Len(obs.events) : obs.events[i] = <<"disconnect", WEBUI_MAX_CLIENTS - 1>>
    /\ \A k \in Conns : pcbs[k].state \in {"closed", "aborted"}
    /\ \A c \in Slots : /\ clients[c].state = "Free"
                          /\ ~clients[c].on_txt_frame_received
                          /\ ~clients[c].on_bin_frame_received

-----------------------------------------------------------------------------
(* Termination of the receive path *)

(* C36: the receive path terminates.  No call of websocket_recv and no pass *)
(* of the pending-packet loop of websocket_stream_handler runs for ever:    *)
(* whatever chunk of the peer's bytes is delivered to a connected session,  *)
(* and whatever packet a session holds back when it is polled, the while    *)
(* loop over the chain ends.                                                *)
C36_Termination ==
    /\ halted # "loop"
    /\ \A k \in Conns :
          Receiving(k) =>
            \A n \in 1 .. Len(pcbs[k].wire) : \A e \in Env :
                websocket_recv(World, k, <<SubSeq(pcbs[k].wire, 1, n)>>, e).halted # "loop"
    /\ \A c \in Slots :
          (halted = "no" /\ clients[c].state = "Connected" /\ clients[c].stream) =>
            \A e \in Env : websocket_stream_handler(World, c, e).halted # "loop"

-----------------------------------------------------------------------------
(* Connect and disconnect callbacks *)

(* C37: callback pairing.  Of the calls the application gets for a session  *)
(* slot, every on_client_disconnect comes right after the on_client_connect *)
(* of the same session lifetime: none without a connect before it, no two   *)
(* for one connect, and none for a slot whose handshake failed or that was  *)
(* Free when websocketd_stop ran.                                           *)
C37_CallbackPairing ==
    \A c \in Slots :
        \A i \in 1 .. Len(EventsFor(World, c)) :
            EventsFor(World, c)[i][1] = "disconnect" =>
                (i > 1 /\ EventsFor(World, c)[i - 1][1] = "connect")

-----------------------------------------------------------------------------
(* The owner of the character stream *)

\* connection 0 gets the character stream, sends a text frame and closes;
\* connection 1 asks for the stream as well, or for nothing, and sends a
\* text frame; the firmware writes until the first batch is sent, and either
\* connection may be dropped at any moment
InitOwner ==
    /\ InitWith({0, 1}, {Upgrade}, {TextAB \o CloseEmpty, TextAB}, {16})
    /\ pcbs[0].all = TextAB \o CloseEmpty
    /\ pcbs[1].all = TextAB

NextOwner ==
    \/ Accept(0)
    \/ pcbs[0].recv # "http" /\ Accept(1)
    \/ HttpRecv(0, Len(pcbs[0].req), "none", CharStream, Benign)
    \/ \E cb \in {CharStream, NoConsumer} : HttpRecv(1, Len(pcbs[1].req), "none", cb, Benign)
    \/ \E k \in Conns : pcbs[k].wire # <<>> /\ Recv(k, Min(Len(TextAB), Len(pcbs[k].wire)), 0, Benign)
    \/ Poll(Benign)
    \/ (\A k \in Conns : Len(pcbs[k].out) <= 1) /\ PutC(97)
    \/ \E k \in Conns : Err(k)

SpecOwner == InitOwner /\ [][NextOwner]_vars

\* the sessions bound to the character stream
Owners(w) == {c \in Slots : w.clients[c].stream}

\* world r has no session bound to the stream and both rings are empty
Unbound(r, c) ==
    /\ ~r.clients[c].stream /\ r.streambuffers.session = NULL
    /\ streamRxCount(r) = 0 /\ streamTxCount(r) = 0

-----------------------------------------------------------------------------
(* Reassembly buffers *)

\* heap buffer b holds the bytes `bytes` from its offset `at` on and nothing
\* was stored outside its allocation
HoldsAt(b, at, bytes) ==
    /\ ~IsNull(b)
    /\ Len(b.mem) <= b.cap
    /\ at + Len(bytes) <= b.cap
    /\ SubSeq(b.mem, at + 1, at + Len(bytes)) = bytes

(* C39: reassembly writes stay in bounds and in place.  After the first     *)
(* chunk of a split Ping or Close, and of a split data frame of a type with *)
(* a handler, the reassembly buffer holds the payload bytes received so far *)
(* at the payload offsets they have on the wire (behind the header bytes in *)
(* header.frame, from offset 0 in session->payload), nothing is stored      *)
(* outside the allocation, and once the second chunk is in, the handler is  *)
(* given the payload as it was on the wire.                                 *)
C39_ReassemblyInPlace ==
    \A k \in Conns :
        FrameBoundary(k) =>
            \A payload \in Payloads \ {<<97>>} :
              \A n \in 7 .. (5 + Len(payload)) :
                LET c == pcbs[k].arg
                    raw == [i \in 1 .. (n - 6) |-> Xor(payload[i], MASK[((i - 1) % 4) + 1])]
                IN  /\ \A opcode \in {WsOpcode_Ping, WsOpcode_Close} :
                          \A r \in {websocket_recv(World, k,
                                        <<SubSeq(Frame(1, opcode, FALSE, payload), 1, n)>>, Benign)} :
                              /\ r.halted = "no"
                              /\ HoldsAt(r.clients[c].header.frame, 0, r.clients[c].header.data)
                              /\ HoldsAt(r.clients[c].header.frame, 6, raw)
                    /\ \A is_binary \in BOOLEAN :
                          Registered(c, is_binary) =>
                            /\ \A r \in {websocket_recv(World, k,
                                        <<SubSeq(DataFrame(is_binary, payload), 1, n)>>, Benign)} :
                                  /\ r.halted = "no"
                                  /\ HoldsAt(r.clients[c].payload, 0, raw)
                            /\ \A e \in Env : e.malloc_ok =>
                                  HandedOver(FedIn(k, DataFrame(is_binary, payload), n, e),
                                             c, is_binary, payload)

-----------------------------------------------------------------------------
(* Buffer ownership *)

\* session c of world w owns no reassembly buffer and no payload buffer
OwnsNothing(w, c) ==
    IsNull(w.clients[c].payload) /\ IsNull(w.clients[c].header.frame)

(* C40: buffer ownership.  Between calls session->payload never refers into *)
(* a transport chunk; a session whose frame is finished (header cleared) or *)
(* that was torn down (Free) owns no reassembly or payload buffer; and no   *)
(* data frame given to a session with a handler for its type, with or       *)
(* without payload, in one chunk or in two, makes the engine release a      *)
(* pointer it did not allocate: whatever the heap does, a frame handled in  *)
(* place leaves the program running and the session without a buffer.       *)
C40_BufferOwnership ==
    /\ \A c \in Slots :
          /\ clients[c].payload.kind # "pbuf"
          /\ (halted = "no" /\ (clients[c].state = "Free" \/ clients[c].header = header0))
                => OwnsNothing(World, c)
    /\ \A k \in Conns :
          FrameBoundary(k) =>
            \A is_binary \in BOOLEAN :
              Registered(pcbs[k].arg, is_binary) =>
                \A payload \in Payloads \cup {<<>>} : \A e \in Env :
                    e.malloc_ok =>
                      \A r \in {websocket_recv(World, k, <<DataFrame(is_binary, payload)>>, e)} :
                          r.halted = "no" /\ OwnsNothing(r, pcbs[k].arg)
====
